---- MODULE Spec2Model ----
(***************************************************************************)
(* ShareChat backend: the message store with its per-field codec           *)
(* (sanitize -> gzip -> CBOR -> Mongoose schema cast, and back), and the   *)
(* credential exchange (RSA key pair, encrypt/decrypt, POST /api/auth).    *)
(*                                                                         *)
(* Strings are sequences of UTF-16 code units, buffers are sequences of    *)
(* bytes (0..255).  An optional value is a sequence of length 0 or 1.      *)
(***************************************************************************)
EXTENDS Integers, Sequences, FiniteSets, TLC

VARIABLES
    store,       \* the Message collection, in insertion (= timestamp) order
    nextId,      \* next _id the store hands out
    clock,       \* Date.now() in seconds
    ticks,       \* how often the clock has advanced
    resp,        \* the request handled last: its HTTP response and what it emitted
    sent,        \* history: what each create request carried, by _id
    damaged,     \* history: the <<_id, field>> pairs the store corrupted
    issued,      \* the session tokens handed to clients so far
    config,      \* process.env: CHAT_PASSWORD, PASSWORD_SET_DATE, NODE_ENV
    keys,        \* the key pairs getOrGenerateKeyPair returned in this process
    keyCount,    \* how many key pairs were ever generated
    call,        \* the crypto-utils call made last and what it returned or threw
    client,      \* a browser: the token it keeps and the tokens it has discarded
    limiter,     \* express-rate-limit: per IP, the hits and reset time of each limiter
    sockets,     \* socket.io: per client its connection and the events in flight to it
    chat,        \* ChatInterface: per client its message list and the fetches in flight
    loginPage,   \* Login: the public-key fetch, the key it got, the body it posted
    inflight     \* edit and delete requests cut at their awaits, pending and answered

msgVars == <<store, nextId, clock, ticks, resp, sent, damaged, issued>>

keyVars == <<config, keys, keyCount, call>>

\* the state of the browsers' views and of the handlers awaiting the store
sideVars == <<chat, loginPage, inflight>>

vars == <<msgVars, keyVars, client, limiter, sockets, sideVars>>

--------------------------------------------------------------------------
(* Bounds of the model *)

MaxMessages == 2
MaxTicks == 1
MaxDamaged == 1
MaxKeys == 2
MaxClients == 1
MaxQueue == 2
MaxFetches == 1
MaxMinutes == 32
MaxBlocked == 1
MaxOthers == 1
MaxInflight == 3

--------------------------------------------------------------------------
(* Optional values and tagged runtime representations *)

None == <<>>
Some(x) == <<x>>
IsSome(o) == Len(o) > 0
Val(o) == o[1]

\* a JavaScript string value / a Buffer value, as typeof and Buffer.isBuffer see them
Str(s) == [type |-> "string", val |-> s]
Buf(b) == [type |-> "buffer", val |-> b]

Ok(v) == [ok |-> TRUE, val |-> v]
Fail == [ok |-> FALSE, val |-> <<>>]

Rep(c, n) == [i \in 1..n |-> c]

--------------------------------------------------------------------------
(* UTF-8 *)

EncodeCodePoint(c) ==
    IF c < 128 THEN <<c>>
    ELSE IF c < 2048 THEN <<192 + (c \div 64), 128 + (c % 64)>>
    ELSE <<224 + (c \div 4096), 128 + ((c \div 64) % 64), 128 + (c % 64)>>

RECURSIVE UTF8EncodeRange(_, _, _)
UTF8EncodeRange(s, lo, hi) ==
    IF lo > hi THEN <<>>
    ELSE IF lo = hi THEN EncodeCodePoint(s[lo])
    ELSE LET mid == (lo + hi) \div 2
         IN UTF8EncodeRange(s, lo, mid) \o UTF8EncodeRange(s, mid + 1, hi)

\* Buffer.from(s, 'utf8') / pako's string2buf
UTF8Encode(s) == UTF8EncodeRange(s, 1, Len(s))

IsCont(b, i) == i <= Len(b) /\ b[i] >= 128 /\ b[i] < 192

\* the decoder's step at position i: <<code unit, bytes consumed>>;
\* every byte that starts no well-formed sequence becomes U+FFFD
DecodeAt(b, i) ==
    LET x == b[i] IN
    IF x < 128 THEN <<x, 1>>
    ELSE IF x >= 194 /\ x < 224 /\ IsCont(b, i + 1)
        THEN <<(x - 192) * 64 + (b[i + 1] - 128), 2>>
    ELSE IF x >= 224 /\ x < 240 /\ IsCont(b, i + 1) /\ IsCont(b, i + 2)
            /\ (x - 224) * 4096 + (b[i + 1] - 128) * 64 >= 2048
        THEN <<(x - 224) * 4096 + (b[i + 1] - 128) * 64 + (b[i + 2] - 128), 3>>
    ELSE <<65533, 1>>

\* byte i was consumed as a continuation byte of a well-formed sequence
\* (a lead byte is never a continuation byte, so every lead byte starts a step)
Covered(b, i) ==
    \/ i > 1 /\ DecodeAt(b, i - 1)[2] >= 2
    \/ i > 2 /\ DecodeAt(b, i - 2)[2] = 3

\* Buffer.prototype.toString('utf8') / pako's buf2string: never fails, replaces
UTF8Decode(b) ==
    LET starts == SelectSeq([i \in 1..Len(b) |-> i], LAMBDA i : ~Covered(b, i))
    IN [k \in 1..Len(starts) |-> DecodeAt(b, starts[k])[1]]

--------------------------------------------------------------------------
(* gzip (pako) and CBOR (cbor) *)

LE32(n) == <<n % 256, (n \div 256) % 256, (n \div 65536) % 256, (n \div 16777216) % 256>>

RECURSIVE SumRange(_, _, _)
SumRange(b, lo, hi) ==
    IF lo > hi THEN 0
    ELSE IF lo = hi THEN b[lo]
    ELSE LET mid == (lo + hi) \div 2 IN SumRange(b, lo, mid) + SumRange(b, mid + 1, hi)

\* the integrity word of the gzip trailer (a byte sum stands for CRC-32)
Checksum(b) == SumRange(b, 1, Len(b)) % 65536

GzipHeader == <<31, 139, 8, 0, 0, 0, 0, 0, 0, 3>>

\* one final stored deflate block
DeflateStored(b) ==
    <<1, Len(b) % 256, Len(b) \div 256, 255 - (Len(b) % 256), 255 - (Len(b) \div 256)>> \o b

\* pako.gzip(data): header, deflate stream, checksum, length
Gzip(b) == GzipHeader \o DeflateStored(b) \o LE32(Checksum(b)) \o LE32(Len(b))

\* pako.ungzip(data): throws on anything that is not a well-formed stream
Ungzip(z) ==
    IF Len(z) < 23 THEN Fail
    ELSE IF SubSeq(z, 1, 3) # <<31, 139, 8>> THEN Fail
    ELSE IF z[11] # 1 \/ z[14] # 255 - z[12] \/ z[15] # 255 - z[13] THEN Fail
    ELSE LET n == z[12] + 256 * z[13] IN
         IF Len(z) # 23 + n THEN Fail
         ELSE LET data == SubSeq(z, 16, 15 + n) IN
              IF SubSeq(z, 16 + n, 23 + n) # LE32(Checksum(data)) \o LE32(n)
              THEN Fail ELSE Ok(data)

\* cbor.encode with the length always written into the initial byte
CborEncodeShortHeader(b) == <<64 + Len(b)>> \o b

\* cbor.encode(bytes): a definite-length byte string (major type 2)
CborEncode(b) ==
    (IF Len(b) < 24 THEN <<64 + Len(b)>>
     ELSE IF Len(b) < 256 THEN <<88, Len(b)>>
     ELSE <<89, Len(b) \div 256, Len(b) % 256>>) \o b

\* cbor.decode(buffer): throws on truncated input and on trailing bytes;
\* an item that is no byte string is of no use to pako.ungzip
CborDecode(c) ==
    IF Len(c) = 0 THEN Fail
    ELSE LET h == c[1]
             hdr == IF h >= 64 /\ h < 88 THEN 1 ELSE IF h = 88 THEN 2 ELSE IF h = 89 THEN 3 ELSE 0
         IN IF hdr = 0 \/ Len(c) < hdr THEN Fail
            ELSE LET n == IF hdr = 1 THEN h - 64
                          ELSE IF hdr = 2 THEN c[2] ELSE c[2] * 256 + c[3]
                 IN IF Len(c) # hdr + n THEN Fail ELSE Ok(SubSeq(c, hdr + 1, hdr + n))

--------------------------------------------------------------------------
(* base64 (symbols 0..63, 64 is '=', anything above is no base64 character) *)

\* symbol k (0..3) of the group of three bytes that starts at byte i
Base64Symbol(b, i, k) ==
    LET rem == Len(b) - i + 1
        b1 == b[i]
        b2 == IF rem >= 2 THEN b[i + 1] ELSE 0
        b3 == IF rem >= 3 THEN b[i + 2] ELSE 0
    IN IF k = 0 THEN b1 \div 4
       ELSE IF k = 1 THEN (b1 % 4) * 16 + (b2 \div 16)
       ELSE IF k = 2 THEN (IF rem >= 2 THEN (b2 % 16) * 4 + (b3 \div 64) ELSE 64)
       ELSE (IF rem >= 3 THEN b3 % 64 ELSE 64)

\* Buffer.prototype.toString('base64')
Base64Encode(b) ==
    [n \in 1..(4 * ((Len(b) + 2) \div 3)) |->
        Base64Symbol(b, 3 * ((n - 1) \div 4) + 1, (n - 1) % 4)]

\* byte k (from 0) of the bit string the sextets s spell
SextetByte(s, k) ==
    LET q == ((8 * k) \div 6) + 1
        r == (8 * k) % 6
    IN IF r = 0 THEN s[q] * 4 + (s[q + 1] \div 16)
       ELSE IF r = 2 THEN (s[q] % 16) * 16 + (s[q + 1] \div 4)
       ELSE (s[q] % 4) * 64 + s[q + 1]

\* Buffer.from(s, 'base64'): never throws, skips what is no base64 character
Base64Decode(s) ==
    LET sextets == SelectSeq(s, LAMBDA x : x < 64)
    IN [n \in 1..((Len(sextets) * 6) \div 8) |-> SextetByte(sextets, n - 1)]

--------------------------------------------------------------------------
(* Program constants *)

COMPRESS_THRESHOLD == 100
MAX_TEXT_LENGTH == 100000
JWT_EXPIRY_SECONDS == 86400
DEFAULT_LIMIT == 100

--------------------------------------------------------------------------
(* Text validation and the text codec (backend/server.js) *)

IsControl(c) == c \in (0..8) \cup {11, 12} \cup (14..31) \cup {127}

\* String.prototype.trim() leaves nothing
IsBlank(s) == \A i \in 1..Len(s) : s[i] \in {9, 10, 11, 12, 13, 32, 160}

\* `text` alone as the condition, without the trim
TruthyUntrimmed(text) == IsSome(text) /\ Len(Val(text)) > 0

\* `text && text.trim()` on an optional string
Truthy(text) == IsSome(text) /\ Len(Val(text)) > 0 /\ ~IsBlank(Val(text))

sanitizeText(text) == SelectSeq(text, LAMBDA c : ~IsControl(c))

validateTextInput(text) == Len(text) <= MAX_TEXT_LENGTH

\* compressText: null for an empty text, else the CBOR-wrapped gzip Buffer
compressText(text) ==
    IF Len(text) = 0 THEN None ELSE Some(Buf(CborEncode(Gzip(UTF8Encode(text)))))

\* decompressText: null for a missing value and for every codec failure
decompressText(compressed) ==
    IF ~IsSome(compressed) THEN None
    ELSE LET decoded == CborDecode(Val(compressed).val) IN
         IF ~decoded.ok THEN None
         ELSE LET inflated == Ungzip(decoded.val) IN
              IF ~inflated.ok THEN None ELSE Some(UTF8Decode(inflated.val))

\* the value the text branch of POST and PUT assigns to the text path
EncodeText(sanitizedText) ==
    IF Len(sanitizedText) > COMPRESS_THRESHOLD
    THEN compressText(sanitizedText) ELSE Some(Str(sanitizedText))

\* Mongoose: the path `text` is declared String, so a value set on it is cast:
\* a string stays, anything with its own toString() becomes value.toString()
CastString(v) ==
    IF ~IsSome(v) THEN None
    ELSE IF Val(v).type = "string" THEN v
    ELSE Some(Str(UTF8Decode(Val(v).val)))

\* cbor.decode then pako.ungzip of a stored attachment
DecodeAttachment(stored) ==
    LET decoded == CborDecode(stored) IN
    IF ~decoded.ok THEN Fail ELSE Ungzip(decoded.val)

\* `typeof msg.text === 'string' ? msg.text : decompressText(msg.text)`
ResponseText(text) ==
    IF IsSome(text) /\ Val(text).type = "string" THEN Some(Val(text).val)
    ELSE decompressText(text)

--------------------------------------------------------------------------
(* Session tokens (jsonwebtoken) *)

\* jwt.sign: `secret` is the key the signature was made under
GenerateToken(now) ==
    [iat |-> now, exp |-> now + JWT_EXPIRY_SECONDS, secret |-> config.JWT_SECRET]

ForgedToken == [iat |-> 0, exp |-> JWT_EXPIRY_SECONDS, secret |-> "other"]

\* verifyToken that decodes the token without checking its signature
VerifyTokenUnsigned(token, now) ==
    IF ~IsSome(token) THEN 401
    ELSE IF now >= Val(token).exp THEN 401
    ELSE 0

\* verifyToken with a lifetime that ends one second later
VerifyTokenLenient(token, now) ==
    IF ~IsSome(token) THEN 401
    ELSE IF Val(token).secret # config.JWT_SECRET THEN 403
    ELSE IF now > Val(token).exp THEN 401
    ELSE 0

\* verifyToken middleware: the status it answers with, 0 when it calls next()
VerifyToken(token, now) ==
    IF ~IsSome(token) THEN 401
    ELSE IF Val(token).secret # config.JWT_SECRET THEN 403
    ELSE IF now >= Val(token).exp THEN 401
    ELSE 0

RequestTokens == {None, Some(ForgedToken)} \cup {Some(t) : t \in issued}

--------------------------------------------------------------------------
(* Requests the clients send *)

TextExact == <<233>> \o Rep(97, COMPRESS_THRESHOLD - 1)
TextOver == Rep(97, COMPRESS_THRESHOLD + 1)
TextCtl == <<7>> \o Rep(97, COMPRESS_THRESHOLD)
TextBlank == <<32, 10>>

Upload(buffer, name, mime) ==
    [buffer |-> buffer, originalname |-> name, mimetype |-> mime, size |-> Len(buffer)]

ImagePng == Upload(<<137, 80, 78>>, "p.png", "image/png")
ImageEmpty == Upload(<<>>, "e.gif", "image/gif")
FilePdf == Upload(<<37, 80, 68, 70, 255>>, "a.pdf", "application/pdf")
FileEmpty == Upload(<<>>, "empty.bin", "application/octet-stream")

CreateRequests ==
    { [text |-> Some(TextOver),  image |-> Some(ImagePng),   file |-> Some(FilePdf)],
      [text |-> Some(TextExact), image |-> Some(ImageEmpty), file |-> None],
      [text |-> Some(TextBlank), image |-> None,             file |-> Some(FileEmpty)] }

NoRequest == [text |-> None, image |-> None, file |-> None]

EditTexts == {None, Some(TextCtl), Some(TextOver)}

Searches == {None, Some(<<65>>)}

--------------------------------------------------------------------------
(* Message documents and responses *)

\* messageData of POST /api/messages, then `new Message(messageData)`
NewMessage(id, req, now) ==
    [ _id           |-> id,
      text          |-> IF Truthy(req.text)
                        THEN CastString(EncodeText(sanitizeText(Val(req.text))))
                        ELSE None,
      imageData     |-> IF IsSome(req.image)
                        THEN Some(CborEncode(Gzip(Val(req.image).buffer))) ELSE None,
      imageMimeType |-> IF IsSome(req.image) THEN Some(Val(req.image).mimetype) ELSE None,
      fileData      |-> IF IsSome(req.file)
                        THEN Some(CborEncode(Gzip(Val(req.file).buffer))) ELSE None,
      fileName      |-> IF IsSome(req.file) THEN Some(Val(req.file).originalname) ELSE None,
      fileMimeType  |-> IF IsSome(req.file) THEN Some(Val(req.file).mimetype) ELSE None,
      fileSize      |-> IF IsSome(req.file) THEN Some(Val(req.file).size) ELSE None,
      timestamp     |-> now,
      edited        |-> FALSE,
      editedAt      |-> None ]

\* the image part of a response: both keys are set inside the try block
ImageOf(msg) ==
    IF ~IsSome(msg.imageData) THEN Fail ELSE DecodeAttachment(Val(msg.imageData))

\* the response object the list, create and edit handlers build for one message
MessageObj(msg, withEditedAt) ==
    LET image == ImageOf(msg) IN
    [ _id           |-> msg._id,
      text          |-> ResponseText(msg.text),
      timestamp     |-> msg.timestamp,
      edited        |-> msg.edited,
      editedAt      |-> IF withEditedAt THEN msg.editedAt ELSE None,
      imageData     |-> IF image.ok THEN Some(Base64Encode(image.val)) ELSE None,
      imageMimeType |-> IF image.ok THEN msg.imageMimeType ELSE None,
      fileName      |-> IF IsSome(msg.fileData) THEN msg.fileName ELSE None,
      fileMimeType  |-> IF IsSome(msg.fileData) THEN msg.fileMimeType ELSE None,
      fileSize      |-> IF IsSome(msg.fileData) THEN msg.fileSize ELSE None ]

\* what handling one request produced: the HTTP status and body, and the
\* socket.io event it emitted to all clients (io.emit), if any
\* `request` is history: what an /api/auth request carried and when it came
Reply(op, id, status, body, event) ==
    [op |-> op, id |-> id, status |-> status, body |-> body, event |-> event,
     request |-> None]

Event(type, payload) == Some([type |-> type, payload |-> payload])

\* an answer that also tells the sockets when it is an error
ResponseAnnounced(op, id, status, body) ==
    Reply(op, id, status, body, IF status >= 400 THEN Event("message-deleted", id) ELSE None)

Response(op, id, status, body) == Reply(op, id, status, body, None)

NoResponse == Response("none", 0, 0, <<>>)

\* the answer of the verifyToken middleware, the same on every route
Rejected(status) == Response("rejected", 0, status, <<>>)

\* Message.findById(id): the index of the document, 0 when there is none
IndexOf(id) ==
    IF \E i \in 1..Len(store) : store[i]._id = id
    THEN CHOOSE i \in 1..Len(store) : store[i]._id = id ELSE 0

Fold(c) == IF c >= 65 /\ c <= 90 THEN c + 32 ELSE c

\* { text: { $regex: search, $options: 'i' } } for a literal pattern
MatchesSearch(msg, search) ==
    /\ IsSome(msg.text)
    /\ LET t == Val(msg.text).val IN
       \E i \in 1..(Len(t) - Len(search) + 1) :
           \A j \in 1..Len(search) : Fold(t[i + j - 1]) = Fold(search[j])

\* Message.find(query).sort({ timestamp: 1 }).limit(limit).skip(skip)
Find(search) ==
    LET hits == IF IsSome(search)
                THEN SelectSeq(store, LAMBDA m : MatchesSearch(m, Val(search)))
                ELSE store
    IN SubSeq(hits, 1, IF Len(hits) < DEFAULT_LIMIT THEN Len(hits) ELSE DEFAULT_LIMIT)

\* messages.map(msg => messageObj): one entry per document found
ListBody(found) == [i \in 1..Len(found) |-> MessageObj(found[i], TRUE)]

\* GET /api/messages with the image decode outside any try block of its own
ListResponseNoCatch(found) ==
    IF \E i \in 1..Len(found) :
           IsSome(found[i].imageData) /\ ~DecodeAttachment(Val(found[i].imageData)).ok
    THEN Response("list", 0, 500, <<>>)
    ELSE Response("list", 0, 200, ListBody(found))

\* GET /api/messages: the inner try/catch keeps a failed image decode local
ListResponse(found) == Response("list", 0, 200, ListBody(found))

\* GET /api/messages/:id/file: decode, inflate, send; any throw reaches the outer catch
DownloadResponse(msg) ==
    LET decoded == DecodeAttachment(Val(msg.fileData)) IN
    IF ~decoded.ok THEN Response("download", msg._id, 500, <<>>)
    ELSE Response("download", msg._id, 200,
                  [ data        |-> decoded.val,
                    contentType |-> IF IsSome(msg.fileMimeType) THEN Val(msg.fileMimeType)
                                    ELSE "application/octet-stream",
                    fileName    |-> msg.fileName ])

\* an edit that rebuilds the document from the request and restamps it
EditedMessageRebuilt(msg, text, now) ==
    IF Truthy(text)
    THEN [msg EXCEPT !.text = CastString(EncodeText(sanitizeText(Val(text)))),
                     !.edited = TRUE,
                     !.editedAt = Some(now),
                     !.timestamp = now,
                     !.fileSize = None]
    ELSE msg

\* the document PUT /api/messages/:id saves
EditedMessage(msg, text, now) ==
    IF Truthy(text)
    THEN [msg EXCEPT !.text = CastString(EncodeText(sanitizeText(Val(text)))),
                     !.edited = TRUE,
                     !.editedAt = Some(now)]
    ELSE msg

--------------------------------------------------------------------------
(* crypto-utils: RSA-OAEP over a key pair, byte for byte in miniature *)

RSA_KEY_SIZE == 2048
SHA256_BYTES == 32

ModulusBytes == RSA_KEY_SIZE \div 8

\* the longest message RSA-OAEP takes under this key size and digest
MaxPayload == ModulusBytes - 2 * SHA256_BYTES - 2

Returned(v) == [threw |-> FALSE, value |-> v, error |-> ""]
Threw(code) == [threw |-> TRUE, value |-> <<>>, error |-> code]

\* the n-th pair crypto.generateKeyPairSync draws: the two halves are inverse
\* exponents, here inverse shifts modulo 256
generateRSAKeyPair(n) == [publicKey |-> n, privateKey |-> 256 - n]

\* the digest of the empty OAEP label
LHash == Rep(227, SHA256_BYTES)

Shift(bytes, by) == [i \in 1..Len(bytes) |-> (bytes[i] + by) % 256]

\* EME-OAEP encoding: 00 || seed || masked (lHash || 00.. || 01 || message)
OaepPad(message, seed) ==
    <<0>> \o Rep(seed, SHA256_BYTES)
          \o Shift(LHash \o Rep(0, MaxPayload - Len(message)) \o <<1>> \o message, seed)

\* the first index in lo..hi at which db is not zero, 0 when there is none
RECURSIVE FirstNonZero(_, _, _)
FirstNonZero(db, lo, hi) ==
    IF lo > hi THEN 0
    ELSE IF lo = hi THEN (IF db[lo] # 0 THEN lo ELSE 0)
    ELSE LET mid == (lo + hi) \div 2
             left == FirstNonZero(db, lo, mid)
         IN IF left # 0 THEN left ELSE FirstNonZero(db, mid + 1, hi)

\* EME-OAEP decoding; any violation of the layout is one and the same failure
OaepUnpad(em) ==
    LET db == Shift(SubSeq(em, SHA256_BYTES + 2, Len(em)), 256 - em[2])
        sep == FirstNonZero(db, SHA256_BYTES + 1, Len(db))
    IN IF em[1] # 0 \/ SubSeq(db, 1, SHA256_BYTES) # LHash \/ sep = 0 THEN Fail
       ELSE IF db[sep] # 1 THEN Fail
       ELSE Ok(SubSeq(db, sep + 1, Len(db)))

\* the private-key operation that undoes nothing
RsaPrivateIdle(block, privateKey) == block

RsaPublic(block, publicKey) == Shift(block, publicKey)
RsaPrivate(block, privateKey) == Shift(block, privateKey)

\* an octet string shorter than the modulus is read as the same number
LeftPad(bytes) == Rep(0, ModulusBytes - Len(bytes)) \o bytes

\* encryptWithPublicKey(data, publicKey); `seed` is the randomness OAEP draws
encryptWithPublicKey(data, publicKey, seed) ==
    LET buffer == UTF8Encode(data) IN
    IF Len(buffer) > MaxPayload THEN Threw("ERR_OSSL_RSA_DATA_TOO_LARGE_FOR_KEY_SIZE")
    ELSE Returned(Base64Encode(RsaPublic(OaepPad(buffer, seed), publicKey)))

\* decryptWithPrivateKey(encryptedData, privateKey): what OpenSSL throws is
\* passed on as thrown
decryptWithPrivateKey(encryptedData, privateKey) ==
    LET buffer == Base64Decode(encryptedData) IN
    IF Len(buffer) > ModulusBytes THEN Threw("ERR_OSSL_RSA_DATA_GREATER_THAN_MOD_LEN")
    ELSE LET message == OaepUnpad(RsaPrivate(LeftPad(buffer), privateKey)) IN
         IF message.ok THEN Returned(UTF8Decode(message.val))
         ELSE Threw("ERR_OSSL_RSA_OAEP_DECODING_ERROR")

NoCall == [op |-> "none", origin |-> <<>>, key |-> 0, out |-> Returned(<<>>)]

--------------------------------------------------------------------------
(* The stored secret and POST /api/auth *)

PASSWORD_EXPIRY_DAYS == 90
MAX_PASSWORD_LENGTH == 1000
BCRYPT_MAX_BYTES == 72
BCRYPT_ROUNDS == 10
BCRYPT_SALT_CHARS == 22
BCRYPT_DIGEST_CHARS == 31
BCRYPT_HASH_CHARS == 60

SecondsPerDay == 24 * 60 * 60

StartsWith(s, prefix) == Len(s) >= Len(prefix) /\ SubSeq(s, 1, Len(prefix)) = prefix

\* "$2a$", "$2b$", "$2y$"
BcryptPrefixes == {<<36, 50, 97, 36>>, <<36, 50, 98, 36>>, <<36, 50, 121, 36>>}

Min(a, b) == IF a < b THEN a ELSE b

\* "./A..Za..z0..9", the alphabet bcrypt spells salt and digest in
BcryptChar(v) ==
    IF v = 0 THEN 46 ELSE IF v = 1 THEN 47
    ELSE IF v < 28 THEN 65 + (v - 2)
    ELSE IF v < 54 THEN 97 + (v - 28)
    ELSE 48 + (v - 54)

\* the sum of bytes[j] * (j + i) over lo..hi
RECURSIVE WeighedSum(_, _, _, _)
WeighedSum(bytes, i, lo, hi) ==
    IF lo > hi THEN 0
    ELSE IF lo = hi THEN bytes[lo] * (lo + i)
    ELSE LET mid == (lo + hi) \div 2
         IN WeighedSum(bytes, i, lo, mid) + WeighedSum(bytes, i, mid + 1, hi)

\* the 31 characters bcrypt derives from key, salt and cost
DigestOfKey(key, salt, rounds) ==
    [i \in 1..BCRYPT_DIGEST_CHARS |->
        BcryptChar((WeighedSum(key, i, 1, Len(key)) + Len(key) + rounds
                       + i * salt[((i - 1) % Len(salt)) + 1]) % 64)]

\* the key schedule reads at most the first 72 bytes of the password
BcryptKey(bytes) == SubSeq(bytes, 1, Min(Len(bytes), BCRYPT_MAX_BYTES))

BcryptDigest(password, salt, rounds) ==
    DigestOfKey(BcryptKey(UTF8Encode(password)), salt, rounds)

TwoDigits(n) == <<48 + (n \div 10), 48 + (n % 10)>>

\* the stored form for a given salt and cost: "$2b$" cost "$" salt digest
BcryptHashWith(password, salt, rounds) ==
    <<36, 50, 98, 36>> \o TwoDigits(rounds) \o <<36>> \o salt
        \o BcryptDigest(password, salt, rounds)

\* bcrypt.hash(password, 10); `salt` is the random salt it draws
BcryptHash(password, salt) == BcryptHashWith(password, salt, BCRYPT_ROUNDS)

\* bcrypt.compare that fails where it should answer no
BcryptCompareStrict(password, hash) ==
    IF Len(hash) # BCRYPT_HASH_CHARS THEN Threw("Not a valid BCrypt hash")
    ELSE IF SubSeq(BcryptHashWith(password, SubSeq(hash, 8, 7 + BCRYPT_SALT_CHARS),
                                  (hash[5] - 48) * 10 + (hash[6] - 48)), 8, BCRYPT_HASH_CHARS)
                = SubSeq(hash, 8, BCRYPT_HASH_CHARS)
    THEN Returned(TRUE)
    ELSE Threw("Password does not match")

\* bcrypt.compare(password, hash): a hash that is not 60 characters long
\* matches nothing; one whose cost field cannot be used makes it fail
BcryptCompare(password, hash) ==
    IF Len(hash) # BCRYPT_HASH_CHARS THEN Returned(FALSE)
    ELSE LET rounds == (hash[5] - 48) * 10 + (hash[6] - 48)
             salt == SubSeq(hash, 8, 7 + BCRYPT_SALT_CHARS)
         IN IF hash[7] > 36 THEN Threw("Missing salt rounds")
            ELSE IF rounds < 4 \/ rounds > 31 THEN Threw("Illegal number of rounds (4-31)")
            ELSE Returned(SubSeq(BcryptHashWith(password, salt, rounds), 8, BCRYPT_HASH_CHARS)
                              = SubSeq(hash, 8, BCRYPT_HASH_CHARS))

IsHashed(storedPassword) == \E prefix \in BcryptPrefixes : StartsWith(storedPassword, prefix)

\* comparePassword that keeps quiet in its plain text branch
comparePasswordQuiet(inputPassword, storedPassword) ==
    LET outcome == IF IsHashed(storedPassword)
                   THEN BcryptCompare(inputPassword, storedPassword)
                   ELSE Returned(inputPassword = storedPassword)
    IN [threw |-> outcome.threw, value |-> outcome.value, error |-> outcome.error,
        warned |-> FALSE]

\* comparePassword: what it resolves or rejects with, and whether it logged the
\* plain text warning
comparePassword(inputPassword, storedPassword) ==
    LET outcome == IF IsHashed(storedPassword)
                   THEN BcryptCompare(inputPassword, storedPassword)
                   ELSE Returned(inputPassword = storedPassword)
    IN [threw |-> outcome.threw, value |-> outcome.value, error |-> outcome.error,
        warned |-> ~IsHashed(storedPassword)]

\* the error validatePasswordInput reports, <<>> when the input is valid
validatePasswordInput(password) ==
    IF ~IsSome(password) \/ Val(password).type # "string" \/ Len(Val(password).val) = 0
    THEN Some("Password is required")
    ELSE IF Len(Val(password).val) > MAX_PASSWORD_LENGTH THEN Some("Password is too long")
    ELSE None

ExpiryDate == Val(config.PASSWORD_SET_DATE) + PASSWORD_EXPIRY_DAYS * SecondsPerDay

\* an expiry check with a day of grace
isPasswordExpiredLate(now) ==
    IF ~IsSome(config.PASSWORD_SET_DATE) THEN FALSE ELSE now > ExpiryDate + SecondsPerDay

isPasswordExpired(now) ==
    IF ~IsSome(config.PASSWORD_SET_DATE) THEN FALSE ELSE now > ExpiryDate

\* Math.ceil((expiryDate - now) / day)
DaysUntilExpiry(now) ==
    IF ~IsSome(config.PASSWORD_SET_DATE) THEN None
    ELSE Some(-((now - ExpiryDate) \div SecondsPerDay))

\* two salts bcrypt may draw
SaltA == Rep(65, BCRYPT_SALT_CHARS)
SaltB == <<46, 47>> \o Rep(122, BCRYPT_SALT_CHARS - 2)

\* "p@ss wörd"
Secret == <<112, 64, 115, 115, 32, 119, 246, 114, 100>>

\* the deployments considered
Configs ==
    {[CHAT_PASSWORD |-> Secret, PASSWORD_SET_DATE |-> None, NODE_ENV |-> "development",
      JWT_SECRET |-> "jwtSecretKey"],
     [CHAT_PASSWORD |-> Secret, PASSWORD_SET_DATE |-> Some(0), NODE_ENV |-> "production",
      JWT_SECRET |-> "jwtSecretKey"],
     [CHAT_PASSWORD |-> BcryptHash(Secret, SaltA), PASSWORD_SET_DATE |-> Some(0),
      NODE_ENV |-> "development", JWT_SECRET |-> "jwtSecretKey"]}

DefaultConfig ==
    [CHAT_PASSWORD |-> Secret, PASSWORD_SET_DATE |-> None, NODE_ENV |-> "development",
     JWT_SECRET |-> "jwtSecretKey"]

\* the browser before anyone has logged in
NoClient == [token |-> None, isAuthenticated |-> FALSE, discarded |-> {}]

--------------------------------------------------------------------------
(* Connections, views and limiters before anything has happened *)

Clients == 1..MaxClients

\* the addresses requests come from (req.ip)
IPs == {"10.0.0.1", "10.0.0.2"}

\* MemoryStore: a client (key) that has made no hit
NoHits == [totalHits |-> 0, resetTime |-> 0]

\* `reached` is history: when requests of this IP reached the route handler
NoLimits == [ip \in IPs |-> [auth |-> NoHits, strict |-> NoHits, reached |-> <<>>]]

NoSocket == [connected |-> FALSE, token |-> None, queue |-> <<>>]

\* useState([]) and no request under way
NoChat == [mounted |-> FALSE, messages |-> <<>>, responses |-> <<>>]

\* useState(null), useState(false): the component before it is mounted
NoLogin == [fetch |-> "idle", publicKey |-> None, keyError |-> FALSE, posted |-> None]

InitSide ==
    /\ limiter = NoLimits
    /\ sockets = [c \in Clients |-> NoSocket]
    /\ chat = [c \in Clients |-> NoChat]
    /\ loginPage = NoLogin
    /\ inflight = <<>>

\* io.emit(type, payload): the event is queued to every connected socket
Emit(event) ==
    [c \in Clients |->
        IF sockets[c].connected /\ IsSome(event)
        THEN [sockets[c] EXCEPT !.queue = Append(@, Val(event))]
        ELSE sockets[c]]

--------------------------------------------------------------------------
(* The message service *)

Init ==
    /\ store = <<>>
    /\ nextId = 1
    /\ clock = 0
    /\ ticks = 0
    /\ resp = NoResponse
    /\ sent = <<>>
    /\ damaged = {}
    /\ config = DefaultConfig
    /\ issued = {GenerateToken(0)}
    /\ keys = <<>>
    /\ keyCount = 0
    /\ call = NoCall
    /\ client = NoClient
    /\ InitSide

\* POST /api/messages
CreateMessage(token, req) ==
    /\ nextId <= MaxMessages
    /\ LET status == VerifyToken(token, clock) IN
       IF status # 0
       THEN /\ resp' = Rejected(status)
            /\ UNCHANGED <<store, nextId, sent>>
       ELSE IF Truthy(req.text) /\ ~validateTextInput(Val(req.text))
       THEN /\ resp' = Response("create", 0, 400, <<>>)
            /\ UNCHANGED <<store, nextId, sent>>
       ELSE LET msg == NewMessage(nextId, req, clock)
                body == MessageObj(msg, FALSE)
            IN /\ store' = Append(store, msg)
               /\ nextId' = nextId + 1
               /\ sent' = Append(sent, req)
               /\ resp' = Reply("create", msg._id, 201, body, Event("message", body))
    /\ UNCHANGED <<clock, ticks, damaged, issued>>
    /\ UNCHANGED <<keyVars, client>>
    /\ sockets' = Emit(resp'.event)
    /\ UNCHANGED <<limiter, sideVars>>

\* PUT /api/messages/:id
EditMessage(token, id, text) ==
    /\ LET status == VerifyToken(token, clock)
           idx == IndexOf(id)
       IN
       IF status # 0
       THEN /\ resp' = Rejected(status)
            /\ UNCHANGED <<store, sent>>
       ELSE IF idx = 0
       THEN /\ resp' = Response("edit", id, 404, <<>>)
            /\ UNCHANGED <<store, sent>>
       ELSE IF Truthy(text) /\ ~validateTextInput(Val(text))
       THEN /\ resp' = Response("edit", id, 400, <<>>)
            /\ UNCHANGED <<store, sent>>
       ELSE LET msg == EditedMessage(store[idx], text, clock)
                body == MessageObj(msg, TRUE)
            IN /\ store' = [store EXCEPT ![idx] = msg]
               /\ sent' = IF Truthy(text) THEN [sent EXCEPT ![id].text = text] ELSE sent
               /\ resp' = Reply("edit", id, 200, body, Event("message-edited", body))
    /\ UNCHANGED <<nextId, clock, ticks, damaged, issued>>
    /\ UNCHANGED <<keyVars, client>>
    /\ sockets' = Emit(resp'.event)
    /\ UNCHANGED <<limiter, sideVars>>

\* what GET /api/messages answers
ListResult(token, search) ==
    LET status == VerifyToken(token, clock) IN
    IF status # 0 THEN Rejected(status) ELSE ListResponse(Find(search))

\* GET /api/messages
ListMessages(token, search) ==
    /\ resp' = ListResult(token, search)
    /\ UNCHANGED <<store, nextId, clock, ticks, sent, damaged, issued>>
    /\ UNCHANGED <<keyVars, client>>
    /\ UNCHANGED <<limiter, sockets, sideVars>>

\* GET /api/messages/:id/file
DownloadFile(token, id) ==
    /\ LET status == VerifyToken(token, clock)
           idx == IndexOf(id)
       IN
       resp' = IF status # 0 THEN Rejected(status)
               ELSE IF idx = 0 \/ ~IsSome(store[idx].fileData)
               THEN Response("download", id, 404, <<>>)
               ELSE DownloadResponse(store[idx])
    /\ UNCHANGED <<store, nextId, clock, ticks, sent, damaged, issued>>
    /\ UNCHANGED <<keyVars, client>>
    /\ UNCHANGED <<limiter, sockets, sideVars>>

\* DELETE /api/messages/:id
DeleteMessage(token, id) ==
    /\ LET status == VerifyToken(token, clock)
           idx == IndexOf(id)
       IN
       IF status # 0
       THEN /\ resp' = Rejected(status)
            /\ UNCHANGED <<store, sent>>
       ELSE IF idx = 0
       THEN /\ resp' = Response("delete", id, 404, <<>>)
            /\ UNCHANGED <<store, sent>>
       ELSE /\ store' = SubSeq(store, 1, idx - 1) \o SubSeq(store, idx + 1, Len(store))
            /\ sent' = [sent EXCEPT ![id] = NoRequest]
            /\ resp' = Reply("delete", id, 200, <<>>, Event("message-deleted", id))
    /\ UNCHANGED <<nextId, clock, ticks, damaged, issued>>
    /\ UNCHANGED <<keyVars, client>>
    /\ sockets' = Emit(resp'.event)
    /\ UNCHANGED <<limiter, sideVars>>

\* the bytes of a stored attachment go bad: the envelope loses its last byte
\* (no longer unwrappable) or a trailer byte changes (no longer inflatable)
Mangle(bytes, how) ==
    IF how = "truncate" THEN SubSeq(bytes, 1, Len(bytes) - 1)
    ELSE [bytes EXCEPT ![Len(bytes)] = (@ + 1) % 256]

Damage(id, field, how) ==
    /\ Cardinality(damaged) < MaxDamaged
    /\ <<id, field>> \notin damaged
    /\ IndexOf(id) # 0
    /\ IsSome(store[IndexOf(id)][field])
    /\ store' = [store EXCEPT ![IndexOf(id)][field] = Some(Mangle(Val(@), how))]
    /\ damaged' = damaged \cup {<<id, field>>}
    /\ UNCHANGED <<nextId, clock, ticks, resp, sent, issued>>
    /\ UNCHANGED <<keyVars, client>>
    /\ UNCHANGED <<limiter, sockets, sideVars>>

\* time passes
Tick(d) ==
    /\ ticks < MaxTicks
    /\ ticks' = ticks + 1
    /\ clock' = clock + d
    /\ UNCHANGED <<store, nextId, resp, sent, damaged, issued>>
    /\ UNCHANGED <<keyVars, client>>
    /\ UNCHANGED <<limiter, sockets, sideVars>>

Ids == 1..MaxMessages

Sessions == {None} \cup {Some(t) : t \in issued}

Next ==
    \/ \E token \in Sessions, req \in CreateRequests : CreateMessage(token, req)
    \/ \E token \in Sessions, id \in Ids, text \in EditTexts : EditMessage(token, id, text)
    \/ \E token \in Sessions : ListMessages(token, None)
    \/ \E token \in Sessions, id \in Ids : DownloadFile(token, id)
    \/ \E token \in Sessions, id \in Ids : DeleteMessage(token, id)
    \/ \E id \in Ids, field \in {"imageData", "fileData"}, how \in {"truncate", "flip"} :
           Damage(id, field, how)
    \/ Tick(JWT_EXPIRY_SECONDS)

Spec == Init /\ [][Next]_vars

--------------------------------------------------------------------------
(* The message service under requests that carry attachments and short texts *)

TextShort == <<104, 105>>

AttachRequests ==
    { [text |-> Some(TextShort), image |-> Some(ImagePng),   file |-> Some(FilePdf)],
      [text |-> None,            image |-> Some(ImageEmpty), file |-> Some(FileEmpty)] }

NextAttach ==
    \/ \E token \in Sessions, req \in AttachRequests : CreateMessage(token, req)
    \/ \E token \in Sessions, id \in Ids : EditMessage(token, id, Some(TextShort))
    \/ \E token \in Sessions : ListMessages(token, None)
    \/ \E token \in Sessions, id \in Ids : DownloadFile(token, id)
    \/ \E token \in Sessions, id \in Ids : DeleteMessage(token, id)
    \/ \E id \in Ids, field \in {"imageData", "fileData"}, how \in {"truncate", "flip"} :
           Damage(id, field, how)

SpecAttach == Init /\ [][NextAttach]_vars

--------------------------------------------------------------------------
(* crypto-utils as a library: key pairs, encryption, decryption *)

Long100 == Rep(97, 100)
Fitting == Rep(97, MaxPayload)
Oversize == Rep(97, MaxPayload + 1)

Plaintexts == {Secret, <<>>, Long100, Fitting, Oversize}

Seeds == {7, 200}

\* base64 text is spelled in symbol indices (0..63, 64 for '='); larger values
\* are characters outside the alphabet: "", "AAAA", "cc", 348 times "A"
Malformed == {<<>>, <<0, 0, 0, 0>>, <<99, 99>>, Rep(0, 4 * ((ModulusBytes + 5) \div 3))}

Encrypted(data, publicKey, seed) ==
    [kind |-> "encrypted", data |-> data, key |-> publicKey, seed |-> seed]

Origins(dataSet) ==
    {Encrypted(data, k, seed) : data \in dataSet, k \in 1..keyCount, seed \in Seeds}

\* the ciphertext a client that did `origin` holds
Ciphertext(origin) ==
    IF origin.kind = "encrypted"
    THEN encryptWithPublicKey(origin.data, origin.key, origin.seed).value
    ELSE origin.text

\* getOrGenerateKeyPair()
GetOrGenerateKeyPair ==
    /\ keyCount < MaxKeys
    /\ keyCount' = keyCount + 1
    /\ keys' = Append(keys, generateRSAKeyPair(keyCount + 1))
    /\ call' = [NoCall EXCEPT !.op = "getOrGenerateKeyPair", !.key = keyCount + 1]
    /\ UNCHANGED <<msgVars, client, config>>
    /\ UNCHANGED <<limiter, sockets, sideVars>>

\* encryptWithPublicKey(data, publicKey) by whoever holds a public key
Encrypt(data, publicKey, seed) ==
    /\ call' = [op |-> "encrypt",
                origin |-> Encrypted(data, publicKey, seed),
                key |-> publicKey,
                out |-> encryptWithPublicKey(data, publicKey, seed)]
    /\ UNCHANGED <<msgVars, client, config, keys, keyCount>>
    /\ UNCHANGED <<limiter, sockets, sideVars>>

\* decryptWithPrivateKey(encryptedData, privateKey), under a private key the
\* process holds, on a ciphertext some client produced or on text that never
\* was one
Decrypt(origin, privateKey) ==
    /\ call' = [op |-> "decrypt",
                origin |-> origin,
                key |-> privateKey,
                out |-> decryptWithPrivateKey(Ciphertext(origin), privateKey)]
    /\ UNCHANGED <<msgVars, client, config, keys, keyCount>>
    /\ UNCHANGED <<limiter, sockets, sideVars>>

\* the process ends and a new one starts: nothing in memory survives (a restart
\* of a process that holds no key pair changes nothing)
Restart ==
    /\ Len(keys) > 0
    /\ keys' = <<>>
    /\ UNCHANGED <<msgVars, client, config, keyCount, call>>
    /\ UNCHANGED <<limiter, sockets, sideVars>>

NextCipher ==
    \/ GetOrGenerateKeyPair
    \/ \E data \in Plaintexts, k \in 1..keyCount, seed \in Seeds :
           Encrypt(data, generateRSAKeyPair(k).publicKey, seed)
    \/ \E origin \in Origins(Plaintexts \ {Oversize})
                         \cup {[kind |-> "malformed", text |-> m] : m \in Malformed},
          i \in 1..Len(keys) :
           Decrypt(origin, keys[i].privateKey)
    \/ Restart

SpecCipher == Init /\ [][NextCipher]_vars

--------------------------------------------------------------------------
(* The login endpoints *)

AuthBody(success, message, token, expired, days) ==
    [success |-> success, message |-> message, token |-> token,
     expiresIn |-> IF IsSome(token) THEN Some("24h") ELSE None,
     expired |-> expired, passwordExpiresInDays |-> days]

Answer(op, status, body, request) ==
    [Response(op, 0, status, body) EXCEPT !.request = Some(request)]

Held == {keys[i].publicKey : i \in 1..Len(keys)}

\* the body of POST /api/auth; `origin` says how the client made
\* encryptedPassword, when it sends one
LoginBody(password, origin) ==
    [password |-> password,
     encryptedPassword |->
         IF IsSome(origin) THEN Some(Str(Ciphertext(Val(origin)))) ELSE None]

\* POST /api/auth: `const { password } = req.body` is all the handler reads of
\* LoginBody(password, origin)
Authenticate(password, origin) ==
    LET request == [password |-> password, origin |-> origin, at |-> clock,
                    stale |-> IsSome(origin) /\ Val(origin).key \notin Held]
        validation == validatePasswordInput(password)
        token == GenerateToken(clock)
    IN
    /\ IF IsSome(validation)
       THEN /\ resp' = Answer("auth", 400,
                              AuthBody(FALSE, Val(validation), None, FALSE, None), request)
            /\ UNCHANGED issued
       ELSE IF isPasswordExpired(clock)
       THEN /\ resp' = Answer("auth", 403,
                              AuthBody(FALSE, "Password has expired", None, TRUE, None), request)
            /\ UNCHANGED issued
       ELSE IF comparePassword(Val(password).val, config.CHAT_PASSWORD).threw
       THEN /\ resp' = Answer("auth", 500,
                              AuthBody(FALSE, "Authentication failed. Please try again.",
                                       None, FALSE, None), request)
            /\ UNCHANGED issued
       ELSE IF comparePassword(Val(password).val, config.CHAT_PASSWORD).value
       THEN /\ resp' = Answer("auth", 200,
                              AuthBody(TRUE, "", Some(token), FALSE, DaysUntilExpiry(clock)),
                              request)
            /\ issued' = issued \cup {token}
       ELSE /\ resp' = Answer("auth", 401,
                              AuthBody(FALSE, "Invalid password", None, FALSE, None), request)
            /\ UNCHANGED issued
    /\ UNCHANGED <<store, nextId, clock, ticks, sent, damaged, keyVars, client>>
    /\ UNCHANGED <<sockets, sideVars>>

\* GET /api/auth/verify
VerifySession(token) ==
    /\ LET status == VerifyToken(token, clock)
           request == [token |-> token, at |-> clock, secret |-> config.JWT_SECRET,
                       discarded |-> IsSome(token) /\ Val(token) \in client.discarded]
       IN resp' = IF status # 0 THEN [Rejected(status) EXCEPT !.request = Some(request)]
                  ELSE Answer("verify", 200, [success |-> TRUE, valid |-> TRUE], request)
    /\ UNCHANGED <<store, nextId, clock, ticks, sent, damaged, issued, keyVars, client>>
    /\ UNCHANGED <<limiter, sockets, sideVars>>

\* GET /api/auth/public-key: no route of the server matches; in production the
\* catch-all answers with the front end's page, otherwise Express answers 404
GetPublicKey ==
    /\ resp' = Answer("public-key",
                      IF config.NODE_ENV = "production" THEN 200 ELSE 404,
                      [success |-> FALSE, publicKey |-> None, keyFingerprint |-> None],
                      [at |-> clock])
    /\ UNCHANGED <<store, nextId, clock, ticks, sent, damaged, issued, keyVars, client>>
    /\ UNCHANGED <<limiter, sockets, sideVars>>

Wrong == <<119, 114, 111, 110, 103>>

Passwords ==
    {None, Some(Str(Secret)), Some(Str(Wrong)), Some(Str(<<>>)),
     Some(Str(Rep(97, MAX_PASSWORD_LENGTH + 1))), Some([type |-> "number", val |-> <<>>])}

\* what a login request carries: a password, an encrypted credential, neither
Logins ==
    {<<password, None>> : password \in Passwords}
        \cup {<<None, Some(Encrypted(data, k, 7))>> : data \in {Secret, Wrong}, k \in 1..keyCount}

InitAuth ==
    /\ store = <<>>
    /\ nextId = 1
    /\ clock = 0
    /\ ticks = 0
    /\ resp = NoResponse
    /\ sent = <<>>
    /\ damaged = {}
    /\ issued = {}
    /\ config \in Configs
    /\ keys = <<>>
    /\ keyCount = 0
    /\ call = NoCall
    /\ client = NoClient
    /\ InitSide

NextAuth ==
    \/ GetOrGenerateKeyPair
    \/ Restart
    \/ GetPublicKey
    \/ \E login \in Logins : Authenticate(login[1], login[2]) /\ UNCHANGED limiter
    \/ \E token \in RequestTokens : VerifySession(token)
    \/ \E d \in {JWT_EXPIRY_SECONDS, PASSWORD_EXPIRY_DAYS * SecondsPerDay + 1} : Tick(d)

SpecAuth == InitAuth /\ [][NextAuth]_vars

--------------------------------------------------------------------------
(* Session tokens over their lifetime: the browser, the socket, the secret *)

\* App.jsx handleLogin, called by Login.jsx with the token of a successful login
HandleLogin ==
    /\ resp.op = "auth"
    /\ resp.status = 200
    /\ client' = [client EXCEPT !.token = resp.body.token, !.isAuthenticated = TRUE]
    /\ UNCHANGED <<msgVars, keyVars>>
    /\ UNCHANGED <<limiter, sockets, sideVars>>

\* App.jsx handleLogout: the browser forgets its token; the server is not told
HandleLogout ==
    /\ client.isAuthenticated
    /\ client' = [token |-> None, isAuthenticated |-> FALSE,
                  discarded |-> client.discarded \cup {Val(client.token)}]
    /\ UNCHANGED <<msgVars, keyVars>>
    /\ UNCHANGED <<limiter, sockets, sideVars>>

\* the error authenticateSocket hands to next(), <<>> when it admits the socket
SocketError(token, now) ==
    IF ~IsSome(token) THEN Some("Authentication required")
    ELSE IF VerifyToken(token, now) # 0 THEN Some("Invalid or expired token")
    ELSE None

\* io.use(authenticateSocket): a socket connects with handshake.auth.token
ConnectSocket(token) ==
    /\ resp' = Answer("socket", 0, [error |-> SocketError(token, clock)],
                      [token |-> token, at |-> clock, secret |-> config.JWT_SECRET,
                       discarded |-> IsSome(token) /\ Val(token) \in client.discarded])
    /\ UNCHANGED <<store, nextId, clock, ticks, sent, damaged, issued, keyVars, client>>
    /\ UNCHANGED <<limiter, sockets, sideVars>>

\* the process is restarted with another JWT_SECRET in its environment
RotateSecret ==
    /\ config.JWT_SECRET = DefaultConfig.JWT_SECRET
    /\ config' = [config EXCEPT !.JWT_SECRET = "rotatedSecret"]
    /\ UNCHANGED <<msgVars, keys, keyCount, call, client>>
    /\ UNCHANGED <<limiter, sockets, sideVars>>

InitToken ==
    /\ InitAuth
    /\ config = DefaultConfig

NextToken ==
    \/ Authenticate(Some(Str(Secret)), None) /\ UNCHANGED limiter
    \/ HandleLogin
    \/ HandleLogout
    \/ \E token \in RequestTokens : VerifySession(token)
    \/ \E token \in RequestTokens : ConnectSocket(token)
    \/ RotateSecret
    \/ \E d \in {JWT_EXPIRY_SECONDS - 1, JWT_EXPIRY_SECONDS, JWT_EXPIRY_SECONDS + 1} : Tick(d)

SpecToken == InitToken /\ [][NextToken]_vars

--------------------------------------------------------------------------
(* The stored secret in its forms, and comparePassword against it *)

Long80 == Rep(97, BCRYPT_MAX_BYTES + 8)
Long80Tail == Rep(97, BCRYPT_MAX_BYTES) \o Rep(98, 8)

\* "$2b$pw": a password that happens to begin like a hash
PrefixedPlain == <<36, 50, 98, 36, 112, 119>>

Salts == {SaltA, SaltB}

\* what people type
Credentials == {Secret, Wrong, PrefixedPlain, Long80, Long80Tail}

\* CHAT_PASSWORD values an operator wrote in plain text
PlainSecrets == {Secret, PrefixedPlain}

\* CHAT_PASSWORD values that look like a hash but carry an unusable cost
MalformedSecrets == {BcryptHashWith(Secret, SaltA, 99)}

StoredSecrets ==
    PlainSecrets \cup MalformedSecrets
        \cup {BcryptHash(Secret, salt) : salt \in Salts}
        \cup {BcryptHash(Long80, SaltA)}

\* bcrypt.hash(password, 10), as the operator does to produce CHAT_PASSWORD
Hash(password, salt) ==
    /\ call' = [op |-> "hash",
                origin |-> [password |-> password, salt |-> salt],
                key |-> 0,
                out |-> Returned(BcryptHash(password, salt))]
    /\ UNCHANGED <<msgVars, client, config, keys, keyCount>>
    /\ UNCHANGED <<limiter, sockets, sideVars>>

\* comparePassword(inputPassword, CHAT_PASSWORD)
Compare(inputPassword) ==
    /\ call' = [op |-> "comparePassword",
                origin |-> [input |-> inputPassword, stored |-> config.CHAT_PASSWORD],
                key |-> 0,
                out |-> comparePassword(inputPassword, config.CHAT_PASSWORD)]
    /\ UNCHANGED <<msgVars, client, config, keys, keyCount>>
    /\ UNCHANGED <<limiter, sockets, sideVars>>

InitVerifier ==
    /\ store = <<>>
    /\ nextId = 1
    /\ clock = 0
    /\ ticks = 0
    /\ resp = NoResponse
    /\ sent = <<>>
    /\ damaged = {}
    /\ issued = {}
    /\ config \in {[DefaultConfig EXCEPT !.CHAT_PASSWORD = stored] : stored \in StoredSecrets}
    /\ keys = <<>>
    /\ keyCount = 0
    /\ call = NoCall
    /\ client = NoClient
    /\ InitSide

NextVerifier ==
    \/ \E password \in Credentials, salt \in Salts : Hash(password, salt)
    \/ \E password \in Credentials : Compare(password)
    \/ \E password \in Credentials :
           Authenticate(Some(Str(password)), None) /\ UNCHANGED limiter

SpecVerifier == InitVerifier /\ [][NextVerifier]_vars

--------------------------------------------------------------------------
(* The message service under edits: texts on both sides of the threshold,
   and texts that are missing, empty or blank *)

TextEmpty == <<>>

BlankTexts == {None, Some(TextEmpty), Some(TextBlank)}

EditRequests ==
    { [text |-> Some(TextShort), image |-> Some(ImagePng), file |-> Some(FilePdf)],
      [text |-> Some(TextOver),  image |-> None,           file |-> None],
      [text |-> Some(TextBlank), image |-> Some(ImagePng), file |-> Some(FileEmpty)],
      [text |-> Some(TextEmpty), image |-> None,           file |-> Some(FilePdf)],
      [text |-> None,            image |-> Some(ImageEmpty), file |-> None] }

NewTexts == {Some(TextExact), Some(TextOver)} \cup BlankTexts

NextEdit ==
    \/ \E token \in Sessions, req \in EditRequests : CreateMessage(token, req)
    \/ \E token \in Sessions, id \in Ids, text \in NewTexts : EditMessage(token, id, text)
    \/ \E token \in Sessions, id \in Ids : DeleteMessage(token, id)
    \/ Tick(1)

SpecEdit == Init /\ [][NextEdit]_vars

--------------------------------------------------------------------------
(* The message service under searches *)

\* "Ax"
TextTitle == <<65, 120>>

\* GET /api/messages?search=: none, "A" and "x"
SearchStrings == Searches \cup {Some(<<120>>)}

SearchRequests ==
    { [text |-> Some(TextShort), image |-> None, file |-> None],
      [text |-> Some(TextTitle), image |-> None, file |-> None],
      [text |-> Some(TextOver),  image |-> None, file |-> None] }

NextSearch ==
    \/ \E token \in Sessions, req \in SearchRequests : CreateMessage(token, req)
    \/ \E token \in Sessions, id \in Ids, text \in {Some(TextTitle), Some(TextOver)} :
           EditMessage(token, id, text)
    \/ \E token \in Sessions, search \in SearchStrings : ListMessages(token, search)
    \/ \E token \in Sessions, id \in Ids : DeleteMessage(token, id)

SpecSearch == Init /\ [][NextSearch]_vars

--------------------------------------------------------------------------
(* The chat clients: ChatInterface over its socket and its fetches *)

\* App renders ChatInterface with the token of the session; the mount
\* effect calls fetchInitialMessages: the request is served, the response is
\* on its way.  The socket of the other mount effect connects in OpenSocket.
Mount(c, token) ==
    /\ ~chat[c].mounted
    /\ resp' = ListResult(Some(token), None)
    /\ chat' = [chat EXCEPT ![c] = [mounted |-> TRUE, token |-> token,
                                    messages |-> <<>>, responses |-> <<resp'>>]]
    /\ UNCHANGED <<store, nextId, clock, ticks, sent, damaged, issued>>
    /\ UNCHANGED <<keyVars, client, limiter, sockets, loginPage, inflight>>

\* loadMessages(query): the request is served, the response is on its way
LoadMessages(c, search) ==
    /\ chat[c].mounted
    /\ Len(chat[c].responses) < MaxFetches
    /\ resp' = ListResult(Some(chat[c].token), search)
    /\ chat' = [chat EXCEPT ![c].responses = Append(@, resp')]
    /\ UNCHANGED <<store, nextId, clock, ticks, sent, damaged, issued>>
    /\ UNCHANGED <<keyVars, client, limiter, sockets, loginPage, inflight>>

\* io(API_URL, { auth: { token } }) through authenticateSocket; a refused
\* handshake reaches the connect_error handler, which logs the user out
OpenSocket(c) ==
    /\ chat[c].mounted
    /\ ~sockets[c].connected
    /\ IF IsSome(SocketError(Some(chat[c].token), clock))
       THEN /\ chat' = [chat EXCEPT ![c] = NoChat]
            /\ UNCHANGED sockets
       ELSE /\ sockets' = [sockets EXCEPT ![c] = [connected |-> TRUE,
                                                  token |-> Some(chat[c].token),
                                                  queue |-> <<>>]]
            /\ UNCHANGED chat
    /\ UNCHANGED <<msgVars, keyVars, client, limiter, loginPage, inflight>>

Without(seq, i) == SubSeq(seq, 1, i - 1) \o SubSeq(seq, i + 1, Len(seq))

\* a response arrives: setMessages(response.data), or handleApiError, which
\* logs out on 401 (the component unmounts and its socket is closed)
ReceiveResponse(c, i) ==
    /\ i \in 1..Len(chat[c].responses)
    /\ LET response == chat[c].responses[i] IN
       IF response.status = 200
       THEN /\ chat' = [chat EXCEPT ![c].messages = response.body,
                                    ![c].responses = Without(@, i)]
            /\ UNCHANGED sockets
       ELSE IF response.status = 401
       THEN /\ chat' = [chat EXCEPT ![c] = NoChat]
            /\ sockets' = [sockets EXCEPT ![c] = NoSocket]
       ELSE /\ chat' = [chat EXCEPT ![c].responses = Without(@, i)]
            /\ UNCHANGED sockets
    /\ UNCHANGED <<msgVars, keyVars, client, limiter, loginPage, inflight>>

\* the three socket handlers of ChatInterface
Handled(messages, event) ==
    IF event.type = "message" THEN Append(messages, event.payload)
    ELSE IF event.type = "message-deleted"
    THEN SelectSeq(messages, LAMBDA m : m._id # event.payload)
    ELSE [k \in 1..Len(messages) |->
             IF messages[k]._id = event.payload._id THEN event.payload ELSE messages[k]]

\* the next event in flight to client c arrives
ReceiveEvent(c) ==
    /\ sockets[c].connected
    /\ Len(sockets[c].queue) > 0
    /\ chat' = [chat EXCEPT ![c].messages = Handled(@, Head(sockets[c].queue))]
    /\ sockets' = [sockets EXCEPT ![c].queue = Tail(@)]
    /\ UNCHANGED <<msgVars, keyVars, client, limiter, loginPage, inflight>>

\* no socket has more than MaxQueue events waiting
QueuesShort == \A c \in Clients : Len(sockets[c].queue) < MaxQueue

NoteRequest == [text |-> Some(TextShort), image |-> None, file |-> None]

NextSync ==
    \/ \E c \in Clients, token \in issued : Mount(c, token)
    \/ \E c \in Clients : LoadMessages(c, None)
    \/ \E c \in Clients : OpenSocket(c)
    \/ \E c \in Clients, i \in 1..MaxFetches : ReceiveResponse(c, i)
    \/ \E c \in Clients : ReceiveEvent(c)
    \/ \E token \in issued : QueuesShort /\ CreateMessage(Some(token), NoteRequest)
    \/ \E token \in issued, id \in Ids :
           QueuesShort /\ EditMessage(Some(token), id, Some(TextTitle))
    \/ \E token \in issued, id \in Ids : QueuesShort /\ DeleteMessage(Some(token), id)

SpecSync == Init /\ [][NextSync]_vars

\* what is in flight arrives: socket.io delivers each event and every HTTP
\* response comes back
Delivery ==
    /\ \A c \in Clients : WF_vars(ReceiveEvent(c))
    /\ \A c \in Clients, i \in 1..MaxFetches : WF_vars(ReceiveResponse(c, i))

SpecSyncFair == SpecSync /\ Delivery

--------------------------------------------------------------------------
(* POST /api/auth behind its two limiters *)

AUTH_WINDOW_MINUTES == 15
AUTH_MAX == 5
STRICT_WINDOW_MINUTES == 60
STRICT_MAX == 10

\* a store that starts a new window with every hit
HitAlwaysFresh(entry, now, window) == [totalHits |-> 1, resetTime |-> now + window]

\* MemoryStore.increment: a new or expired entry starts a window at `now`
Hit(entry, now, window) ==
    IF entry.totalHits = 0 \/ entry.resetTime <= now
    THEN [totalHits |-> 1, resetTime |-> now + window]
    ELSE [entry EXCEPT !.totalHits = @ + 1]

TooMany(message, password) ==
    Answer("auth", 429, AuthBody(FALSE, message, None, FALSE, None),
           [password |-> password, origin |-> None, at |-> clock, stale |-> FALSE])

\* app.post('/api/auth', authLimiter, strictAuthLimiter, handler)
AuthRoute(ip, password) ==
    LET auth == Hit(limiter[ip].auth, clock, AUTH_WINDOW_MINUTES * 60)
        strict == Hit(limiter[ip].strict, clock, STRICT_WINDOW_MINUTES * 60)
    IN
    IF auth.totalHits > AUTH_MAX
    THEN /\ auth.totalHits <= AUTH_MAX + MaxBlocked
         /\ resp' = TooMany("Too many authentication attempts, please try again later.",
                            password)
         /\ limiter' = [limiter EXCEPT ![ip].auth = auth]
         /\ UNCHANGED <<store, nextId, clock, ticks, sent, damaged, issued>>
         /\ UNCHANGED <<keyVars, client, sockets, sideVars>>
    ELSE IF strict.totalHits > STRICT_MAX
    THEN /\ resp' = TooMany("Too many failed authentication attempts. Account locked for 1 hour.",
                            password)
         /\ limiter' = [limiter EXCEPT ![ip].auth = auth, ![ip].strict = strict]
         /\ UNCHANGED <<store, nextId, clock, ticks, sent, damaged, issued>>
         /\ UNCHANGED <<keyVars, client, sockets, sideVars>>
    ELSE /\ limiter' = [limiter EXCEPT ![ip].auth = auth, ![ip].strict = strict,
                                        ![ip].reached = Append(@, clock)]
         /\ Authenticate(password, None)

\* minutes pass
Elapse(minutes) ==
    /\ clock + 60 * minutes <= 60 * MaxMinutes
    /\ clock' = clock + 60 * minutes
    /\ UNCHANGED <<store, nextId, ticks, resp, sent, damaged, issued>>
    /\ UNCHANGED <<keyVars, client, limiter, sockets, sideVars>>

NextLimit ==
    \/ \E password \in {Some(Str(Secret)), Some(Str(Wrong))} : AuthRoute("10.0.0.1", password)
    \/ /\ Len(limiter["10.0.0.2"].reached) < MaxOthers
       /\ AuthRoute("10.0.0.2", Some(Str(Wrong)))
    \/ \E minutes \in {AUTH_WINDOW_MINUTES - 1, AUTH_WINDOW_MINUTES + 1} : Elapse(minutes)

SpecLimit == InitToken /\ [][NextLimit]_vars

--------------------------------------------------------------------------
(* Login and refresh around the day the password expires *)

\* POST /api/auth/refresh: verifyToken, then a new token, nothing else
Refresh(token) ==
    LET status == VerifyToken(token, clock)
        request == [token |-> token, at |-> clock]
    IN
    /\ IF status # 0
       THEN /\ resp' = Answer("refresh", status,
                              AuthBody(FALSE, "", None, FALSE, None), request)
            /\ UNCHANGED issued
       ELSE /\ resp' = Answer("refresh", 200,
                              AuthBody(TRUE, "", Some(GenerateToken(clock)), FALSE, None),
                              request)
            /\ issued' = issued \cup {GenerateToken(clock)}
    /\ UNCHANGED <<store, nextId, clock, ticks, sent, damaged, keyVars, client>>
    /\ UNCHANGED <<limiter, sockets, sideVars>>

ExpiryConfigs ==
    Configs \cup {[DefaultConfig EXCEPT !.CHAT_PASSWORD = BcryptHashWith(Secret, SaltA, 99),
                                        !.PASSWORD_SET_DATE = Some(0)]}

InitExpiry ==
    /\ store = <<>>
    /\ nextId = 1
    /\ clock = 0
    /\ ticks = 0
    /\ resp = NoResponse
    /\ sent = <<>>
    /\ damaged = {}
    /\ issued = {}
    /\ config \in ExpiryConfigs
    /\ keys = <<>>
    /\ keyCount = 0
    /\ call = NoCall
    /\ client = NoClient
    /\ InitSide

NextExpiry ==
    \/ \E password \in {None, Some(Str(Secret)), Some(Str(Wrong))} :
           Authenticate(password, None) /\ UNCHANGED limiter
    \/ \E token \in RequestTokens : Refresh(token)
    \/ \E d \in {PASSWORD_EXPIRY_DAYS * SecondsPerDay - 1,
                  PASSWORD_EXPIRY_DAYS * SecondsPerDay,
                  PASSWORD_EXPIRY_DAYS * SecondsPerDay + 1} : Tick(d)

SpecExpiry == InitExpiry /\ [][NextExpiry]_vars

--------------------------------------------------------------------------
(* Every route, from a server that has issued no token yet *)

\* the server is started at the set date, or one second before the password
\* expires
InitIssue ==
    /\ store = <<>>
    /\ nextId = 1
    /\ clock \in {0, PASSWORD_EXPIRY_DAYS * SecondsPerDay - 1}
    /\ ticks = 0
    /\ resp = NoResponse
    /\ sent = <<>>
    /\ damaged = {}
    /\ issued = {}
    /\ config \in ExpiryConfigs
    /\ keys = <<>>
    /\ keyCount = 0
    /\ call = NoCall
    /\ client = NoClient
    /\ InitSide

NextIssue ==
    \/ \E password \in Passwords : Authenticate(password, None) /\ UNCHANGED limiter
    \/ \E token \in RequestTokens : Refresh(token)
    \/ \E token \in RequestTokens : VerifySession(token)
    \/ GetPublicKey
    \/ \E token \in RequestTokens : ListMessages(token, None)
    \/ \E token \in RequestTokens :
           CreateMessage(token, [text |-> Some(TextShort), image |-> None, file |-> None])
    \/ \E token \in RequestTokens, id \in Ids : DeleteMessage(token, id)
    \/ \E d \in {2, JWT_EXPIRY_SECONDS} : Tick(d)

SpecIssue == InitIssue /\ [][NextIssue]_vars

--------------------------------------------------------------------------
(* Sockets that stay open while their token runs out *)

NextSocket ==
    \/ Authenticate(Some(Str(Secret)), None) /\ UNCHANGED limiter
    \/ \E c \in Clients, token \in issued : Mount(c, token)
    \/ \E c \in Clients : OpenSocket(c)
    \/ \E c \in Clients, i \in 1..MaxFetches : ReceiveResponse(c, i)
    \/ \E c \in Clients : ReceiveEvent(c)
    \/ \E token \in issued : QueuesShort /\ CreateMessage(Some(token), NoteRequest)
    \/ \E token \in issued, id \in Ids :
           QueuesShort /\ EditMessage(Some(token), id, Some(TextTitle))
    \/ \E token \in issued, id \in Ids : QueuesShort /\ DeleteMessage(Some(token), id)
    \/ \E d \in {JWT_EXPIRY_SECONDS - 1, JWT_EXPIRY_SECONDS} : Tick(d)

SpecSocket == Init /\ [][NextSocket]_vars

--------------------------------------------------------------------------
(* The login page: the key fetch of the mount effect and the submit *)

\* what the GET of /api/auth/public-key can come back with: a key, a body
\* without one, or no answer at all (axios rejects)
KeyResponses ==
    {[ok |-> TRUE, success |-> TRUE, publicKey |-> Some(generateRSAKeyPair(k).publicKey)] :
         k \in 1..MaxKeys}
        \cup {[ok |-> TRUE, success |-> FALSE, publicKey |-> None],
              [ok |-> FALSE, success |-> FALSE, publicKey |-> None]}

\* Login mounts: the effect calls fetchPublicKey, the GET is under way
MountLogin ==
    /\ loginPage.fetch = "idle"
    /\ loginPage' = [loginPage EXCEPT !.fetch = "pending"]
    /\ UNCHANGED <<msgVars, keyVars, client, limiter, sockets, chat, inflight>>

\* the GET settles: setPublicKey on a body with success and a key, setKeyError
\* otherwise and in the catch
KeyFetched(response) ==
    /\ loginPage.fetch = "pending"
    /\ loginPage' = IF response.ok /\ response.success /\ IsSome(response.publicKey)
                    THEN [loginPage EXCEPT !.fetch = "succeeded",
                                           !.publicKey = response.publicKey]
                    ELSE [loginPage EXCEPT !.fetch = "failed", !.keyError = TRUE]
    /\ UNCHANGED <<msgVars, keyVars, client, limiter, sockets, chat, inflight>>

\* handleSubmit up to axios.post: { encryptedPassword } when the state holds a
\* key, { password } otherwise; `fetch` notes where the key fetch stood
HandleSubmit(password) ==
    /\ loginPage.fetch # "idle"
    /\ loginPage' =
           [loginPage EXCEPT !.posted =
               Some([password |-> IF IsSome(loginPage.publicKey) THEN None
                                  ELSE Some(Str(password)),
                     origin |-> IF IsSome(loginPage.publicKey)
                                THEN Some(Encrypted(password, Val(loginPage.publicKey), 7))
                                ELSE None,
                     fetch |-> loginPage.fetch])]
    /\ UNCHANGED <<msgVars, keyVars, client, limiter, sockets, chat, inflight>>

\* the POST of the last submit reaches /api/auth
PostLogin ==
    /\ IsSome(loginPage.posted)
    /\ Authenticate(Val(loginPage.posted).password, Val(loginPage.posted).origin)
    /\ UNCHANGED limiter

NextLogin ==
    \/ GetOrGenerateKeyPair
    \/ MountLogin
    \/ \E response \in KeyResponses : KeyFetched(response)
    \/ \E password \in {Secret, Wrong} : HandleSubmit(password)
    \/ PostLogin
    \/ \E d \in {JWT_EXPIRY_SECONDS, PASSWORD_EXPIRY_DAYS * SecondsPerDay + 1} : Tick(d)

SpecLogin == InitAuth /\ [][NextLogin]_vars

--------------------------------------------------------------------------
(* Edits and deletes that overlap: each handler in the steps its awaits cut *)

Pending(op, id, found, created, doc, text) ==
    [op |-> op, id |-> id, stage |-> "db", found |-> found, created |-> created,
     doc |-> doc, text |-> text, status |-> 0, emitted |-> FALSE]

Settle(k, status, emitted) ==
    [inflight EXCEPT ![k].stage = "done", ![k].status = status, ![k].emitted = emitted]

\* DELETE /api/messages/:id up to the return of findByIdAndDelete, which finds
\* and removes in one operation of the database
BeginDelete(token, id) ==
    /\ Len(inflight) < MaxInflight
    /\ VerifyToken(token, clock) = 0
    /\ LET idx == IndexOf(id) IN
       /\ store' = IF idx = 0 THEN store
                   ELSE SubSeq(store, 1, idx - 1) \o SubSeq(store, idx + 1, Len(store))
       /\ sent' = IF idx = 0 THEN sent ELSE [sent EXCEPT ![id] = NoRequest]
       /\ inflight' = Append(inflight,
                             Pending("delete", id, idx # 0, id < nextId, <<>>, None))
    /\ UNCHANGED <<nextId, clock, ticks, resp, damaged, issued>>
    /\ UNCHANGED <<keyVars, client, limiter, sockets, chat, loginPage>>

\* the rest of the handler: 404 when nothing was found, else io.emit and 200
EndDelete(k) ==
    /\ k \in 1..Len(inflight)
    /\ inflight[k].op = "delete"
    /\ inflight[k].stage = "db"
    /\ resp' = IF inflight[k].found
               THEN Reply("delete", inflight[k].id, 200, <<>>,
                          Event("message-deleted", inflight[k].id))
               ELSE Response("delete", inflight[k].id, 404, <<>>)
    /\ inflight' = Settle(k, resp'.status, IsSome(resp'.event))
    /\ sockets' = Emit(resp'.event)
    /\ UNCHANGED <<store, nextId, clock, ticks, sent, damaged, issued>>
    /\ UNCHANGED <<keyVars, client, limiter, chat, loginPage>>

\* message.save() that writes the document whether or not it is still stored
EndEditUpsert(k) ==
    /\ k \in 1..Len(inflight)
    /\ inflight[k].op = "edit"
    /\ inflight[k].stage = "db"
    /\ LET idx == IndexOf(inflight[k].id)
           body == MessageObj(inflight[k].doc, TRUE)
       IN
       /\ store' = IF idx = 0 THEN Append(store, inflight[k].doc)
                   ELSE [store EXCEPT ![idx] = inflight[k].doc]
       /\ resp' = Reply("edit", inflight[k].id, 200, body, Event("message-edited", body))
       /\ inflight' = Settle(k, 200, TRUE)
    /\ sockets' = Emit(resp'.event)
    /\ UNCHANGED <<nextId, clock, ticks, sent, damaged, issued>>
    /\ UNCHANGED <<keyVars, client, limiter, chat, loginPage>>

\* PUT /api/messages/:id up to the call of message.save(): findById, the text
\* branch on the document in memory
BeginEdit(token, id, text) ==
    /\ Len(inflight) < MaxInflight
    /\ VerifyToken(token, clock) = 0
    /\ IndexOf(id) # 0
    /\ Truthy(text) => validateTextInput(Val(text))
    /\ inflight' = Append(inflight,
                          Pending("edit", id, TRUE, TRUE,
                                  EditedMessage(store[IndexOf(id)], text, clock), text))
    /\ UNCHANGED <<msgVars, keyVars, client, limiter, sockets, chat, loginPage>>

\* message.save() and the rest of the handler.  With modified paths save()
\* updates the document by _id and rejects with DocumentNotFoundError when
\* none matched (the catch answers 500); with none it does nothing and resolves
EndEdit(k) ==
    /\ k \in 1..Len(inflight)
    /\ inflight[k].op = "edit"
    /\ inflight[k].stage = "db"
    /\ LET idx == IndexOf(inflight[k].id)
           modified == Truthy(inflight[k].text)
           body == MessageObj(inflight[k].doc, TRUE)
       IN
       IF modified /\ idx = 0
       THEN /\ resp' = Response("edit", inflight[k].id, 500, <<>>)
            /\ inflight' = Settle(k, 500, FALSE)
            /\ UNCHANGED <<store, sent>>
       ELSE /\ store' = IF modified THEN [store EXCEPT ![idx] = inflight[k].doc] ELSE store
            /\ sent' = IF modified THEN [sent EXCEPT ![inflight[k].id].text = inflight[k].text]
                       ELSE sent
            /\ resp' = Reply("edit", inflight[k].id, 200, body,
                             Event("message-edited", body))
            /\ inflight' = Settle(k, 200, TRUE)
    /\ sockets' = Emit(resp'.event)
    /\ UNCHANGED <<nextId, clock, ticks, damaged, issued>>
    /\ UNCHANGED <<keyVars, client, limiter, chat, loginPage>>

NextRace ==
    \/ \E token \in issued : CreateMessage(Some(token), NoteRequest)
    \/ \E token \in issued, id \in Ids : BeginDelete(Some(token), id)
    \/ \E k \in 1..MaxInflight : EndDelete(k)
    \/ \E token \in issued, id \in Ids, text \in {None, Some(TextTitle)} :
           BeginEdit(Some(token), id, text)
    \/ \E k \in 1..MaxInflight : EndEdit(k)

SpecRace == Init /\ [][NextRace]_vars

--------------------------------------------------------------------------
(* The message routes under every kind of token *)

\* GET /api/messages/dates: timestamps of the oldest and the newest message,
\* `new Date()` for both when there is none
DateRange(token) ==
    /\ LET status == VerifyToken(token, clock) IN
       resp' = IF status # 0 THEN Rejected(status)
               ELSE Response("dates", 0, 200,
                             [oldest |-> IF Len(store) = 0 THEN clock
                                         ELSE store[1].timestamp,
                              newest |-> IF Len(store) = 0 THEN clock
                                         ELSE store[Len(store)].timestamp])
    /\ UNCHANGED <<store, nextId, clock, ticks, sent, damaged, issued>>
    /\ UNCHANGED <<keyVars, client, limiter, sockets, sideVars>>

FileRequest == [text |-> Some(TextShort), image |-> None, file |-> Some(FilePdf)]

NextGuard ==
    \/ \E token \in RequestTokens : QueuesShort /\ CreateMessage(token, FileRequest)
    \/ \E token \in RequestTokens, id \in Ids :
           QueuesShort /\ EditMessage(token, id, Some(TextTitle))
    \/ \E token \in RequestTokens : ListMessages(token, None)
    \/ \E token \in RequestTokens, id \in Ids : DownloadFile(token, id)
    \/ \E token \in RequestTokens, id \in Ids : QueuesShort /\ DeleteMessage(token, id)
    \/ \E token \in RequestTokens : DateRange(token)
    \/ \E c \in Clients, token \in issued : Mount(c, token)
    \/ \E c \in Clients : OpenSocket(c)
    \/ \E d \in {JWT_EXPIRY_SECONDS - 1, JWT_EXPIRY_SECONDS} : Tick(d)

SpecGuard == Init /\ [][NextGuard]_vars

--------------------------------------------------------------------------
(* Requests that are answered with an error *)

\* one character more than validateTextInput lets through
TextTooLong == Rep(97, MAX_TEXT_LENGTH + 1)

ErrorRequests ==
    {NoteRequest, FileRequest, [text |-> Some(TextTooLong), image |-> None, file |-> None]}

ErrorTexts == {Some(TextTitle), Some(TextTooLong)}

NextError ==
    \/ \E token \in issued, req \in ErrorRequests : CreateMessage(Some(token), req)
    \/ \E token \in issued, id \in Ids, text \in ErrorTexts :
           EditMessage(Some(token), id, text)
    \/ \E token \in issued, id \in Ids : DeleteMessage(Some(token), id)
    \/ \E token \in issued, id \in Ids : DownloadFile(Some(token), id)
    \/ \E id \in Ids : Damage(id, "fileData", "truncate")
    \/ \E token \in issued, id \in Ids :
           inflight = <<>> /\ BeginEdit(Some(token), id, Some(TextTitle))
    \/ \E k \in 1..MaxInflight : EndEdit(k)

SpecError == Init /\ [][NextError]_vars

--------------------------------------------------------------------------
(* Claims about the message codec *)

Intact(id, field) == <<id, field>> \notin damaged

\* what the client that wrote message `id` last sent as its text, once sanitized
WrittenText(id) == sanitizeText(Val(sent[id].text))

\* a text the codec compresses and sanitizeText leaves alone
LongClean(id) ==
    /\ Truthy(sent[id].text)
    /\ Len(Val(sent[id].text)) > COMPRESS_THRESHOLD
    /\ WrittenText(id) = Val(sent[id].text)

ReadsBack(obj) == LongClean(obj._id) => obj.text = Some(Val(sent[obj._id].text))

\* C1: a text of more than 100 characters (free of stripped control characters)
\* reads back exactly as written: in the create and edit responses, in the
\* broadcast payload and in every entry of GET /api/messages.
C1_TextRoundTrip ==
    /\ (resp.op \in {"create", "edit"} /\ resp.status \in {200, 201}) =>
           /\ ReadsBack(resp.body)
           /\ ReadsBack(Val(resp.event).payload)
    /\ (resp.op = "list" /\ resp.status = 200) =>
           \A k \in 1..Len(resp.body) : ReadsBack(resp.body[k])

\* C2: after create and after edit, a sanitized text of at most 100 characters
\* is persisted as a string and a longer one as a binary value, so the runtime
\* representation of the persisted text field tells the two apart.
C2_ThresholdBoundary ==
    \A i \in 1..Len(store) :
        LET id == store[i]._id IN
        Truthy(sent[id].text) =>
            /\ IsSome(store[i].text)
            /\ Val(store[i].text).type =
                   (IF Len(WrittenText(id)) > COMPRESS_THRESHOLD THEN "buffer" ELSE "string")

\* the stored field is a CBOR byte string holding a gzip stream of `payload`
Unwraps(field, payload) ==
    /\ IsSome(field)
    /\ CborDecode(Val(field)).ok
    /\ SubSeq(CborDecode(Val(field)).val, 1, 2) = <<31, 139>>
    /\ Ungzip(CborDecode(Val(field)).val) = Ok(payload)

ImageServed(obj) ==
    LET image == sent[obj._id].image IN
    (IsSome(image) /\ Intact(obj._id, "imageData")) =>
        /\ IsSome(obj.imageData)
        /\ Base64Decode(Val(obj.imageData)) = Val(image).buffer
        /\ obj.imageMimeType = Some(Val(image).mimetype)

C4_CorruptionContained ==
    resp.op = "list" =>
        /\ resp.status = 200
        /\ Len(resp.body) = Len(store)
        /\ \A k \in 1..Len(store) :
               LET m == store[k]
                   e == resp.body[k]
                   image == sent[m._id].image
               IN /\ e._id = m._id
                  /\ e.timestamp = m.timestamp
                  /\ e.edited = m.edited
                  /\ e.editedAt = m.editedAt
                  /\ e.text = (IF IsSome(m.text) THEN Some(Val(m.text).val) ELSE None)
                  /\ e.fileName = m.fileName
                  /\ e.fileMimeType = m.fileMimeType
                  /\ e.fileSize = m.fileSize
                  /\ Intact(m._id, "imageData") =>
                         /\ IsSome(e.imageData) = IsSome(image)
                         /\ e.imageMimeType = m.imageMimeType
                  /\ IsSome(e.imageData) =>
                         /\ IsSome(image)
                         /\ Base64Decode(Val(e.imageData)) = Val(image).buffer

\* two messages were listed, one without its damaged image, the other with its image
C4_Witness ==
    /\ resp.op = "list"
    /\ Len(resp.body) = 2
    /\ \E k \in 1..2 :
           /\ ~Intact(resp.body[k]._id, "imageData")
           /\ ~IsSome(resp.body[k].imageData)
           /\ IsSome(resp.body[3 - k].imageData)

\* C5: no request that serves a message is answered with a server error because
\* a stored attachment cannot be unwrapped or inflated.
C5_NoCodecError ==
    resp.op \in {"list", "create", "edit", "download"} => resp.status < 500

--------------------------------------------------------------------------
(* Claims about the credential exchange *)

\* the outcome of POST /api/auth in the terms of the specification
Kind(r) ==
    IF r.status = 200 /\ r.body.success THEN "success"
    ELSE IF r.status = 401 THEN "invalid-credential"
    ELSE IF r.status = 403 /\ r.body.expired THEN "expired-credential-policy"
    ELSE IF r.status = 400 THEN "invalid-input"
    ELSE "error"

\* C6: a login that carries a credential encrypted under a key pair the
\* running process does not hold (a key from before a restart) is answered with
\* the decryption-failed kind, never with success or wrong-credential.
C6_KeyMismatchIsolation ==
    (resp.op = "auth" /\ Val(resp.request).stale) => Kind(resp) = "decryption-failed"

Matching(publicKey, privateKey) == generateRSAKeyPair(publicKey).privateKey = privateKey

\* C7: the error decryptWithPrivateKey throws on malformed input differs from
\* the error it throws, under the same private key, on a well-formed ciphertext
\* made under another key pair, so a caller can tell the two apart.
C7_DistinctDecryptErrors ==
    (call.op = "decrypt" /\ call.origin.kind = "malformed" /\ call.out.threw) =>
        \A k \in 1..keyCount :
            ~Matching(k, call.key) =>
                LET other == decryptWithPrivateKey(
                                 Ciphertext(Encrypted(Secret, k, 7)), call.key)
                IN other.threw /\ other.error # call.out.error

\* C8: encryptWithPublicKey accepts every credential of at most MaxPayload
\* bytes, and decryptWithPrivateKey under the private half of the same key pair
\* returns exactly that credential, whatever randomness the padding drew.
C8_CipherRoundTrip ==
    /\ call.op = "encrypt" =>
           (call.out.threw <=> Len(UTF8Encode(call.origin.data)) > MaxPayload)
    /\ (call.op = "decrypt" /\ call.origin.kind = "encrypted"
            /\ Matching(call.origin.key, call.key)) =>
           call.out = Returned(call.origin.data)

\* the 100-character password came back under the second key pair generated
C8_Witness ==
    /\ call.op = "decrypt"
    /\ call.origin.kind = "encrypted"
    /\ call.origin.data = Long100
    /\ call.origin.key = generateRSAKeyPair(2).publicKey
    /\ call.out.value = Long100

CorrectLogin(request) ==
    \/ request.password = Some(Str(Secret))
    \/ /\ IsSome(request.origin)
       /\ Val(request.origin).data = Secret
       /\ ~request.stale

\* C9: GET /api/auth/public-key serves a public key; POST /api/auth answers
\* a correct credential, plain or encrypted under a key the process holds, with
\* success, a token and its lifetime unless the password has expired; and
\* GET /api/auth/verify accepts every issued token that has not run out.
C9_EndToEndLogin ==
    /\ resp.op = "public-key" => (resp.status = 200 /\ IsSome(resp.body.publicKey))
    /\ (resp.op = "auth" /\ CorrectLogin(Val(resp.request))
            /\ ~isPasswordExpired(Val(resp.request).at)) =>
           /\ Kind(resp) = "success"
           /\ IsSome(resp.body.token)
           /\ Val(resp.body.token) \in issued
           /\ resp.body.expiresIn = Some("24h")
    /\ (resp.op \in {"verify", "rejected"} /\ IsSome(resp.request)) =>
           LET request == Val(resp.request) IN
           (IsSome(request.token) /\ Val(request.token) \in issued
                /\ request.at < Val(request.token).exp) => resp.status = 200

\* C10: within one process lifetime the key provider has handed out at most
\* one key pair, however often it was called.
C10_OneKeyPairPerProcess == Cardinality(Held) <= 1

--------------------------------------------------------------------------
(* Claims about session tokens *)

\* the token of the request is signed under the secret the server then had and
\* the request came before issued-at plus the lifetime
FreshAndGenuine(request) ==
    /\ IsSome(request.token)
    /\ Val(request.token).secret = request.secret
    /\ request.at < Val(request.token).iat + JWT_EXPIRY_SECONDS

\* C11: GET /api/auth/verify accepts a token exactly when its signature is made
\* under the server's current secret and the time is before issued-at + 24h,
\* whether or not the browser has logged out in between; a token signed under a
\* secret the server no longer has is rejected.
C11_TokenValidity ==
    (resp.op \in {"verify", "rejected"} /\ IsSome(resp.request)) =>
        (resp.status = 200 <=> FreshAndGenuine(Val(resp.request)))

\* a token the browser discarded at logout was accepted afterwards
C11_Witness ==
    /\ resp.op = "verify"
    /\ resp.status = 200
    /\ Val(resp.request).discarded

\* the token of the request is genuine but its lifetime is over
Expired(request) ==
    /\ IsSome(request.token)
    /\ Val(request.token).secret = request.secret
    /\ request.at >= Val(request.token).exp

BadSignature(request) ==
    IsSome(request.token) /\ Val(request.token).secret # request.secret

\* C12: verifyToken answers an expired token with 401 and a token of invalid
\* signature with 403, the latter also when that token is past its lifetime;
\* and the error authenticateSocket reports for an expired token differs from
\* the one it reports for a token of invalid signature.
C12_ExpiredVersusInvalid ==
    /\ (resp.op = "rejected" /\ IsSome(resp.request)) =>
           /\ Expired(Val(resp.request)) => resp.status = 401
           /\ BadSignature(Val(resp.request)) => resp.status = 403
    /\ (resp.op = "socket" /\ Expired(Val(resp.request))) =>
           /\ IsSome(resp.body.error)
           /\ resp.body.error # SocketError(Some(ForgedToken), Val(resp.request).at)

--------------------------------------------------------------------------
(* Claims about the stored secret *)

C14_HashAndCompare ==
    /\ call.op = "hash" =>
           \A salt \in Salts \ {call.origin.salt} :
               BcryptHash(call.origin.password, salt) # call.out.value
    /\ call.op = "comparePassword" =>
           \A p \in Credentials, salt \in Salts :
               call.origin.stored = BcryptHash(p, salt) =>
                   /\ ~call.out.threw
                   /\ call.out.value = (call.origin.input = p)

\* C15: a secret stored in plain text is never taken for a hash, so comparing
\* it with itself resolves true.
C15_PrefixTellsForms ==
    (call.op = "comparePassword" /\ call.origin.stored \in PlainSecrets) =>
        /\ ~IsHashed(call.origin.stored)
        /\ call.origin.input = call.origin.stored => call.out.value = TRUE

\* C16: comparePassword rejects only when the stored secret is malformed, and
\* resolves a boolean otherwise; POST /api/auth answers 500 only in that case
\* and answers a password the verifier does not accept with 401.
C16_NoThrowOnMismatch ==
    /\ call.op = "comparePassword" =>
           /\ call.out.threw => call.origin.stored \in MalformedSecrets
           /\ ~call.out.threw => call.out.value \in BOOLEAN
    /\ resp.op = "auth" =>
           LET outcome == comparePassword(Val(Val(resp.request).password).val,
                                          config.CHAT_PASSWORD)
           IN /\ resp.status = 500 => config.CHAT_PASSWORD \in MalformedSecrets
              /\ (~outcome.threw /\ ~outcome.value) => resp.status = 401

\* a wrong password met a hashed secret and was answered 401
C16_Witness ==
    /\ resp.op = "auth"
    /\ resp.status = 401
    /\ config.CHAT_PASSWORD = BcryptHash(Secret, SaltB)
    /\ Val(resp.request).password = Some(Str(Wrong))

--------------------------------------------------------------------------
(* Claims about editing *)

\* the fields of a document that no edit may touch
Frame(msg) ==
    [ _id           |-> msg._id,
      timestamp     |-> msg.timestamp,
      imageData     |-> msg.imageData,
      imageMimeType |-> msg.imageMimeType,
      fileData      |-> msg.fileData,
      fileName      |-> msg.fileName,
      fileMimeType  |-> msg.fileMimeType,
      fileSize      |-> msg.fileSize ]

\* C17: a stored message changes only in a successful edit of that message,
\* and the step leaves its id, timestamp, imageData, imageMimeType, fileData,
\* fileName, fileMimeType and fileSize as they were, so that after any
\* sequence of edits they are the values of its creation
C17_EditFrame ==
    [][\A i \in 1..Len(store), j \in 1..Len(store') :
           store[i]._id = store'[j]._id =>
               /\ Frame(store'[j]) = Frame(store[i])
               /\ store'[j] # store[i] =>
                      /\ resp'.op = "edit"
                      /\ resp'.id = store[i]._id
                      /\ resp'.status = 200]_vars

\* a message with an image and a file, created at one time and edited at a later one
C17_Witness ==
    \E i \in 1..Len(store) :
        /\ store[i].edited
        /\ Val(store[i].editedAt) > store[i].timestamp
        /\ IsSome(store[i].imageData)
        /\ IsSome(store[i].fileData)
        /\ store[i].fileSize = Some(FilePdf.size)
        /\ store[i].text = Some(Str(TextExact))

\* the text of the last effective write to message id, as the handler sanitized it
EditedText(id) == sanitizeText(Val(sent[id].text))

\* C18: after a successful edit with a non-empty text T', the persisted text
\* is the encoding of T' alone (raw up to 100 characters, the compressed
\* envelope above), reading it back yields T', edited is true and editedAt set
C18_EditReentersPipeline ==
    \A i \in 1..Len(store) :
        store[i].edited =>
            /\ store[i].text = EncodeText(EditedText(store[i]._id))
            /\ ResponseText(store[i].text) = Some(EditedText(store[i]._id))
            /\ IsSome(store[i].editedAt)

\* C19: a create whose text is missing, empty or whitespace-only stores a
\* message with no text value (no empty string, no compressed blob), and an
\* edit with such a text leaves the stored text, edited and editedAt (the
\* whole collection) as they were
C19_EmptyTextIsAbsent ==
    [][/\ \A token \in Sessions, req \in EditRequests :
              (/\ req.text \in BlankTexts
               /\ CreateMessage(token, req)
               /\ Len(store') > Len(store)) => store'[Len(store')].text = None
       /\ \A token \in Sessions, id \in Ids, text \in BlankTexts :
              EditMessage(token, id, text) => store' = store]_vars

\* a message created with a whitespace-only text, just after an edit of it
\* was answered 200 and left it unedited and without text
C19_Witness ==
    \E i \in 1..Len(store) :
        /\ sent[store[i]._id].text = Some(TextBlank)
        /\ store[i].text = None
        /\ ~store[i].edited
        /\ store[i].editedAt = None
        /\ resp.op = "edit"
        /\ resp.status = 200
        /\ resp.id = store[i]._id

--------------------------------------------------------------------------
(* Claims about search *)

\* the ids of the stored messages whose text, as it was written, contains
\* search as a case-insensitive substring
Containing(search) ==
    { store[i]._id : i \in { k \in 1..Len(store) :
          /\ Truthy(sent[store[k]._id].text)
          /\ MatchesSearch([text |-> Some(Str(sanitizeText(Val(sent[store[k]._id].text))))],
                           search) } }

\* the ids of the messages in the body of a list response
Listed(response) == { response.body[i]._id : i \in 1..Len(response.body) }

\* C20: a search for S returns exactly the stored messages whose text, as
\* written, contains S as a case-insensitive substring, whatever the length
\* of the text
C20_SearchFindsWrittenText ==
    [][\A token \in Sessions, search \in SearchStrings :
           (/\ IsSome(search)
            /\ ListMessages(token, search)
            /\ resp'.status = 200) => Listed(resp') = Containing(Val(search))]_vars

--------------------------------------------------------------------------
(* Claims about the clients' views *)

\* client c is connected and shows message id
Shows(c, id) == \E k \in 1..Len(chat[c].messages) : chat[c].messages[k]._id = id

\* message id was created while client c was connected: its 'message'
\* event is on the way to c
CreatedFor(c, id) ==
    /\ sockets[c].connected
    /\ \E k \in 1..Len(sockets[c].queue) :
           /\ sockets[c].queue[k].type = "message"
           /\ sockets[c].queue[k].payload._id = id

\* an event of the given type about message id is on the way to c
Announced(c, type, id) ==
    /\ sockets[c].connected
    /\ \E k \in 1..Len(sockets[c].queue) :
           /\ sockets[c].queue[k].type = type
           /\ (IF type = "message-deleted" THEN sockets[c].queue[k].payload
                ELSE sockets[c].queue[k].payload._id) = id

\* client c shows message id in an edited version
ShowsEdited(c, id) ==
    \E k \in 1..Len(chat[c].messages) :
        chat[c].messages[k]._id = id /\ chat[c].messages[k].edited

\* message id is gone from the store, or client c from the server
Gone(c, id) == IndexOf(id) = 0 \/ ~sockets[c].connected

\* C21: a message created while a client is connected is eventually shown
\* on that client, an edit eventually shows there as the edited message, a
\* delete eventually removes the message there (unless the message is gone
\* or the client has left); and an event reaches a socket only in a step
\* whose store operation succeeded
C21_RealTimeSync ==
    /\ \A c \in Clients, id \in Ids :
           /\ CreatedFor(c, id) ~> (Shows(c, id) \/ Gone(c, id))
           /\ Announced(c, "message-edited", id) ~> (ShowsEdited(c, id) \/ Gone(c, id))
           /\ Announced(c, "message-deleted", id) ~>
                  (~Shows(c, id) \/ ~sockets[c].connected)
    /\ [][\A c \in Clients :
             Len(sockets'[c].queue) > Len(sockets[c].queue) =>
                 /\ resp'.status \in {200, 201}
                 /\ resp'.op \in {"create", "edit", "delete"}
                 /\ (resp'.op = "delete") =
                        (\A j \in 1..Len(store') : store'[j]._id # resp'.id)]_vars

--------------------------------------------------------------------------
(* Claims about the limits on login *)

\* how many requests of ip reached the handler within the 15-minute window
\* its authLimiter entry is in
ReachedInWindow(ip) ==
    LET till == limiter[ip].auth.resetTime
        since == till - AUTH_WINDOW_MINUTES * 60
        times == limiter[ip].reached
    IN Cardinality({k \in 1..Len(times) : since <= times[k] /\ times[k] < till})

\* C22: from one IP at most 5 requests per 15-minute window of the limiter
\* reach the handler of POST /api/auth, whatever their outcome; a request
\* answered 429 reaches no handler, and no token is issued for it
C22_AuthRateLimit ==
    [][\A ip \in IPs :
           /\ ReachedInWindow(ip)' <= AUTH_MAX
           /\ resp'.status = 429 =>
                  /\ issued' = issued
                  /\ limiter'[ip].reached = limiter[ip].reached
                  /\ resp'.body.token = None]_vars

\* the sixth request of a window is refused after five that were not, one
\* of them a successful login, while the other address is not
C22_Witness ==
    /\ resp.op = "auth"
    /\ resp.status = 429
    /\ ReachedInWindow("10.0.0.1") = AUTH_MAX
    /\ limiter["10.0.0.1"].auth.totalHits = AUTH_MAX + 1
    /\ issued # {}
    /\ limiter["10.0.0.2"].auth.totalHits = 1

--------------------------------------------------------------------------
(* Claims about the expiry of the password *)

\* the last request was a POST /api/auth that reached its handler
Attempt == resp.op = "auth" /\ resp.status # 429

\* C23: with PASSWORD_SET_DATE configured, a login later than that date
\* plus PASSWORD_EXPIRY_DAYS gets no token, and every well-formed password,
\* right or wrong, gets the expired answer (403) whatever the comparison would
\* have given; without PASSWORD_SET_DATE no login is ever answered as
\* expired; a successful login reports null or a non-negative number of days
C23_PasswordExpiry ==
    Attempt =>
        LET request == Val(resp.request) IN
        /\ IF IsSome(config.PASSWORD_SET_DATE)
           THEN request.at > Val(config.PASSWORD_SET_DATE)
                                 + PASSWORD_EXPIRY_DAYS * SecondsPerDay =>
                    /\ resp.body.token = None
                    /\ resp.status \in {400, 403}
                    /\ (IsSome(request.password) => resp.status = 403 /\ resp.body.expired)
           ELSE resp.status # 403 /\ ~resp.body.expired
        /\ resp.status = 200 =>
               \/ resp.body.passwordExpiresInDays = None
               \/ Val(resp.body.passwordExpiresInDays) >= 0

\* the right password against a hashed secret, one second after the expiry
C23_Witness ==
    /\ Attempt
    /\ resp.status = 403
    /\ config.CHAT_PASSWORD = BcryptHash(Secret, SaltA)
    /\ Val(resp.request).password = Some(Str(Secret))
    /\ Val(resp.request).at = PASSWORD_EXPIRY_DAYS * SecondsPerDay + 1

--------------------------------------------------------------------------
(* Claims about the guard on the message routes *)

\* the token is present, signed under the server's secret and not expired
Verifies(token) ==
    /\ IsSome(token)
    /\ Val(token).secret = config.JWT_SECRET
    /\ clock < Val(token).exp

\* some message route is entered with the token
MessageRequest(token) ==
    \/ CreateMessage(token, FileRequest)
    \/ ListMessages(token, None)
    \/ DateRange(token)
    \/ \E id \in Ids : \/ EditMessage(token, id, Some(TextTitle))
                        \/ DownloadFile(token, id)
                        \/ DeleteMessage(token, id)

--------------------------------------------------------------------------
(* Claims about where session tokens come from *)

\* the step is answered by a login or a refresh that carries a token
Granted(op) ==
    /\ resp' # resp
    /\ resp'.op = op
    /\ IsSome(resp'.body.token)

\* C25: a token comes only from POST /api/auth answered after the input was
\* valid, the password had not expired and was the stored secret, or from
\* POST /api/auth/refresh called with a token that verifies; no other request
\* adds a token, and a refresh with a verifying token is granted whether or
\* not the password has expired
C25_TokenIssuance ==
    [][/\ issued' # issued => Granted("auth") \/ Granted("refresh")
       /\ resp' # resp /\ resp'.op \notin {"auth", "refresh"} => issued' = issued
       /\ Granted("auth") =>
              LET request == Val(resp'.request) IN
              /\ IsSome(request.password)
              /\ Val(request.password).type = "string"
              /\ Val(request.password).val = Secret
              /\ IsSome(config.PASSWORD_SET_DATE) =>
                     clock <= Val(config.PASSWORD_SET_DATE)
                                  + PASSWORD_EXPIRY_DAYS * SecondsPerDay
              /\ issued' = issued \cup {Val(resp'.body.token)}
       /\ Granted("refresh") =>
              /\ Verifies(Val(resp'.request).token)
              /\ issued' = issued \cup {Val(resp'.body.token)}
       /\ \A token \in RequestTokens :
              Verifies(token) /\ Refresh(token) =>
                  resp'.status = 200 /\ IsSome(resp'.body.token)]_vars

\* a refresh granted after the password has expired
C25_Witness ==
    /\ resp.op = "refresh"
    /\ resp.status = 200
    /\ IsSome(resp.body.token)
    /\ IsSome(config.PASSWORD_SET_DATE)
    /\ Val(resp.request).at > Val(config.PASSWORD_SET_DATE)
                                  + PASSWORD_EXPIRY_DAYS * SecondsPerDay

--------------------------------------------------------------------------
(* Claims about who receives the broadcasts *)

\* C26: a socket is connected only with a token that verifies at the
\* handshake, and a broadcast event is sent to a socket only while the token
\* the socket presented still verifies
C26_BroadcastOnlyWhileValid ==
    [][\A c \in Clients :
           /\ ~sockets[c].connected /\ sockets'[c].connected =>
                  Verifies(sockets'[c].token)
           /\ Len(sockets'[c].queue) > Len(sockets[c].queue) =>
                  Verifies(sockets[c].token)]_vars

--------------------------------------------------------------------------
(* Claims about what the login page transmits *)

\* C27: the login page posts the password itself only when the fetch of the
\* public key had failed by the time of the submit; a submit while the fetch
\* is pending or after it succeeded posts no plain password
C27_PlaintextOnlyAfterFailure ==
    IsSome(loginPage.posted) /\ IsSome(Val(loginPage.posted).password) =>
        Val(loginPage.posted).fetch = "failed"

--------------------------------------------------------------------------
(* Claims about the list a client shows *)

\* nothing is on its way to client c: every response and event has arrived
Settled(c) ==
    /\ chat[c].mounted
    /\ sockets[c].connected
    /\ chat[c].responses = <<>>
    /\ sockets[c].queue = <<>>

Shown(c) == {chat[c].messages[k]._id : k \in 1..Len(chat[c].messages)}

Stored == {store[i]._id : i \in 1..Len(store)}

\* C28: once every response and every event has reached a client that has
\* not filtered its list, the list holds each stored message exactly once
\* and no message that was deleted
C28_ViewConsistency ==
    \A c \in Clients :
        Settled(c) =>
            /\ Shown(c) = Stored
            /\ Cardinality(Shown(c)) = Len(chat[c].messages)

--------------------------------------------------------------------------
(* Claims about requests that overlap on one message *)

\* the delete requests for id that were made after the message was created
DeletesOf(id) ==
    {k \in 1..Len(inflight) :
         inflight[k].op = "delete" /\ inflight[k].id = id /\ inflight[k].created}

\* C29: of the delete requests for one stored id, however they overlap,
\* exactly one finds the message; that one is answered 200 and broadcasts
\* 'message-deleted' once, every other is answered 404 and broadcasts
\* nothing; and a message that has been removed is never in the store again,
\* whatever edit of it was under way
C29_OverlappingRequests ==
    /\ [](\A id \in Ids :
              /\ DeletesOf(id) # {} =>
                     Cardinality({k \in DeletesOf(id) : inflight[k].found}) = 1
              /\ \A k \in DeletesOf(id) :
                     inflight[k].stage = "done" =>
                         /\ inflight[k].status = IF inflight[k].found THEN 200 ELSE 404
                         /\ inflight[k].emitted = inflight[k].found)
    /\ [][\A id \in Ids :
              id < nextId /\ id \notin Stored => id \notin {store'[i]._id : i \in 1..Len(store')}]_vars

\* two deletes of message 1 and an edit of it that had found it before: all
\* three answered, the edit with 500
C29_Witness ==
    /\ Cardinality({k \in DeletesOf(1) : inflight[k].stage = "done"}) = 2
    /\ \E k \in 1..Len(inflight) :
           /\ inflight[k].op = "edit"
           /\ inflight[k].id = 1
           /\ inflight[k].stage = "done"
           /\ inflight[k].status = 500
    /\ 1 \notin Stored

--------------------------------------------------------------------------
(* Claims about requests answered with an error *)

\* some request to a message route is handled, or the save of an edit settles
Answered ==
    \/ \E token \in issued :
           \/ \E req \in ErrorRequests : CreateMessage(Some(token), req)
           \/ \E id \in Ids :
                  \/ \E text \in ErrorTexts : EditMessage(Some(token), id, text)
                  \/ DeleteMessage(Some(token), id)
                  \/ DownloadFile(Some(token), id)
    \/ \E k \in 1..MaxInflight : EndEdit(k)

\* C30: a message request answered with an error status (400 for a text of
\* more than MAX_TEXT_LENGTH characters on create or edit, 404 for an edit or
\* delete of an unknown id and for a download without a file, 500) leaves the
\* store as it was and emits no event
C30_ErrorsChangeNothing ==
    [][Answered /\ resp'.status >= 400 =>
           /\ store' = store
           /\ nextId' = nextId
           /\ resp'.event = None]_vars

\* an edit of a stored message is refused for its length
C30_Witness ==
    /\ resp.op = "edit"
    /\ resp.status = 400
    /\ IndexOf(resp.id) # 0
====
